---- MODULE Spec2Model ----
(***************************************************************************)
(* The oors-mongodb module (packages/oors-mongodb/src/index.js): the       *)
(* connection table, transaction(fn) and the migration runner it wires up. *)
(*                                                                         *)
(* The MongoDB driver is an external collaborator.  Its calls are modelled *)
(* by the driver's documented behaviour:                                   *)
(*   - MongoClient.connect(url) resolves to a client or rejects;           *)
(*   - session.withTransaction(cb) starts a transaction, runs cb, commits  *)
(*     when cb resolves, aborts when cb rejects and then either runs cb    *)
(*     again in a new transaction (the error carries the label             *)
(*     TransientTransactionError and the driver's time limit has not run   *)
(*     out) or rethrows the error;                                         *)
(*   - an operation belongs to a session's transaction only when the       *)
(*     session is passed to it; an operation issued on a plain db handle   *)
(*     is applied to the store at once.                                    *)
(* The handle returned by getConnectionDb is taken to offer startSession,  *)
(* as the source calls it.                                                 *)
(*                                                                         *)
(* libs/Migrator.js is not among the source files: the runner is modelled  *)
(* from section 4.6 of the specification; its callers (createMigrator,     *)
(* loadMigrationsFromModule, transaction) are modelled from the source.    *)
(***************************************************************************)
EXTENDS Integers, Sequences, FiniteSets, TLC

\* ---------------------------------------------------------------- bounds
NUnits == 3
MaxWrites == 2
MaxAttempts == 2
MaxRuns == 2
MaxCalls == 2
MaxTeardowns == 2
MaxCloses == 1
MaxAdds == 2
MaxDecls == 2
MaxConfigures == 2
MaxDocs == 3
NDocs == 5
MaxLast == 6
NFixture == 3
MaxNodes == 4

\* ------------------------------------------------------------ value space
Undef == "undefined"

\* The values of a configured name that `||` (index.js 110) passes over.
Falsy == {Undef, ""}

Names == {"main", "aux"}
Keys == Names \cup {"other", Undef}

\* The url configured for a connection name, and the client MongoClient.connect
\* opens from a url (identified by that url).
UrlOf(n) == IF n = "main" THEN "mongodb://host/main" ELSE "mongodb://host/aux"
Client(url) == url

Units == 1..NUnits
Modules == {"m1", "m2"}

Err(msg) == [message |-> msg, transient |-> FALSE]
PlainError == Err("boom")
TransientError == [message |-> "conflict", transient |-> TRUE]
FnValue == "fnValue"
CommitResult == "commitResult"

Return(v) == [kind |-> "return", value |-> v]
Throw(e) == [kind |-> "throw", error |-> e]
None == [kind |-> "none"]

\* Collection names; Undef is what an unresolved collection name evaluates to
\* (as a key of this.relations it is the string "undefined").
Colls == {"users", "posts"}
RelNames == {"owner", "items"}

\* Repository instances and the collection name each was constructed with
\* (Repository.js 10-15); "" is the name of an instance of the plain class
\* constructed without one.
Repos == {"r1", "r2", "r3", "r0"}

\* The collection name of an instance, those of the instances setup constructs
\* included: "mig" the migration repository (index.js 274), "u1" and "p1" one of
\* each module repository class (index.js 243); a function has none.
CollOf(r) ==
  IF r \in {"r1", "r3", "u1"} THEN "users"
  ELSE IF r \in {"r2", "p1"} THEN "posts"
  ELSE IF r = "mig" THEN "Migration"
  ELSE IF r = "r0" THEN ""
  ELSE Undef
RepoKeys == {"a.Users", "b.Posts", "c.Users"}

\* Arrays of repositories, as bindRepository may be given one (index.js 423):
\* the empty array and an array that holds a repository.
Arrays == {"[]", "[r1]"}

\* `${module.name}.${repository.constructor.name}` (index.js 248-249) with no
\* prefix configured.
RepositoryKey(m, repository) ==
  IF CollOf(repository) = "users"
  THEN (IF m = "m1" THEN "m1.Users" ELSE "m2.Users")
  ELSE (IF m = "m1" THEN "m1.Posts" ELSE "m2.Posts")

\* The properties every plain object ({} of index.js 87-91) inherits from
\* Object.prototype, and the function a read of one of them yields.
Inherited == {"constructor", "toString"}
Fn(name) == IF name = "constructor" THEN "function Object" ELSE "function toString"

\* undefined where a record is read: the value of an absent entry of an object,
\* what an operation yields when no document matches.
Absent == [kind |-> "undefined"]
TypeError == Err("TypeError")

VARIABLES
  \* configuration
  txEnabled, silent, cfgConns, cfgDefault, moduleFiles, autoload,
  migrationEnabled, moduleRepositories,
  \* connection manager
  phase, defaultConnectionName, connections, connecting, gcArg, gcRes, gcAt,
  initRes,
  \* teardown
  closedClients, closing, tdpc, tdRes, teardowns, tdAtCall, tdFirst, ccRes,
  \* repository table and relation registry
  repositories, bound, declared, relations, op, relBefore, adds, decls,
  configures, relAfterFirst,
  \* a repository's collection and the last operation on the repository
  collection, rop,
  \* transaction(fn)
  store, txState, txpc, txCaller, fnOwner, fnW, fnOut, fnCalls, fnThrows,
  txRes, storeAtCall, calls,
  \* migration runner
  files, toLoad, migrations, runpc, pending, cur, runRes, runs, log,
  failedUnit, upStarted, upFailed, upFailedAt, migAtStart, pendingAtStart,
  history

cfgVars == <<txEnabled, silent, cfgConns, cfgDefault, moduleFiles, autoload,
             migrationEnabled, moduleRepositories>>
connVars == <<phase, defaultConnectionName, connections, connecting, gcArg, gcRes,
              gcAt, initRes>>
tdVars == <<closedClients, closing, tdpc, tdRes, teardowns, tdAtCall, tdFirst,
            ccRes>>
regVars == <<repositories, bound, declared, relations, op, relBefore, adds,
             decls, configures, relAfterFirst>>
repoVars == <<collection, rop>>
extVars == <<tdVars, regVars, repoVars>>
txVars == <<store, txState, txpc, txCaller, fnOwner, fnW, fnOut, fnCalls, fnThrows,
            txRes, storeAtCall, calls>>
migVars == <<files, toLoad, migrations, runpc, pending, cur, runRes, runs, log,
             failedUnit, upStarted, upFailed, upFailedAt, migAtStart,
             pendingAtStart, history>>
vars == <<cfgVars, connVars, txVars, migVars, extVars>>

\* ------------------------------------------------------- sequence helpers
Range(s) == {s[i] : i \in DOMAIN s}

RECURSIVE SortedSeq(_)
SortedSeq(S) ==
  IF S = {} THEN <<>>
  ELSE LET m == CHOOSE x \in S : \A y \in S : x <= y
       IN <<m>> \o SortedSeq(S \ {m})

RECURSIVE Filter(_, _)
Filter(s, S) ==
  IF s = <<>> THEN <<>>
  ELSE (IF Head(s) \in S THEN <<Head(s)>> ELSE <<>>) \o Filter(Tail(s), S)

\* ------------------------------------------------------------ connections
ConfigNames == Range(cfgConns)

\* getConnection: index.js 335-345
getConnection(name) ==
  IF name \in Falsy
  THEN Return(connections[defaultConnectionName])
  ELSE IF name \in Inherited
       THEN Return(Fn(name))
       ELSE IF connections[name] = Undef
            THEN Throw(Err("Unknown connection name"))
            ELSE Return(connections[name])

\* getConnectionDb: index.js 327-333 (name defaults to the default connection)
getConnectionDb(name) ==
  LET n == IF name = Undef THEN defaultConnectionName ELSE name
      c == getConnection(n)
  IN IF c.kind = "throw" THEN c
     ELSE IF c.value = Undef \/ n \notin ConfigNames
          THEN Throw(TypeError)
          ELSE Return(n)

\* Faulty variant of initialize: the default name is not checked against the
\* configured names.
initializeNoCheck ==
  /\ phase = "constructed"
  /\ defaultConnectionName' =
       (IF cfgDefault \notin Falsy THEN cfgDefault ELSE cfgConns[1])
  /\ phase' = "initialized"
  /\ initRes' = Return(Undef)
  /\ UNCHANGED <<connections, connecting, gcArg, gcRes, gcAt>>
  /\ UNCHANGED <<extVars, cfgVars, txVars, migVars>>

\* initialize: index.js 109-118.  The default name is assigned before it is
\* checked against the configured names.
initialize ==
  /\ phase = "constructed"
  /\ defaultConnectionName' =
       (IF cfgDefault \notin Falsy THEN cfgDefault ELSE cfgConns[1])
  /\ phase' = IF defaultConnectionName' \in ConfigNames
              THEN "initialized" ELSE "failed"
  /\ initRes' = IF defaultConnectionName' \in ConfigNames
                THEN Return(Undef)
                ELSE Throw(Err("Default connection name can't be found"))
  /\ UNCHANGED <<connections, connecting, gcArg, gcRes, gcAt>>
  /\ UNCHANGED <<extVars, cfgVars, txVars, migVars>>

\* setup: index.js 147-150.  connections.map(this.createConnection) issues every
\* connect call before any of them completes.
setup ==
  /\ phase = "initialized"
  /\ connecting' = ConfigNames
  /\ phase' = "connecting"
  /\ UNCHANGED <<defaultConnectionName, connections, gcArg, gcRes, gcAt, initRes>>
  /\ UNCHANGED <<extVars, cfgVars, txVars, migVars>>

\* Faulty variant of createConnection: the client is opened from the url of the
\* first configured connection.
createConnectionFirstUrl(n) ==
  /\ n \in connecting
  /\ connections' = [connections EXCEPT ![n] = Client(UrlOf(cfgConns[1]))]
  /\ connecting' = connecting \ {n}
  /\ UNCHANGED <<phase, defaultConnectionName, gcArg, gcRes, gcAt, initRes>>
  /\ UNCHANGED <<extVars, cfgVars, txVars, migVars>>

\* createConnection: index.js 318-325, MongoClient.connect resolved.
createConnection(n) ==
  /\ n \in connecting
  /\ connections' = [connections EXCEPT ![n] = Client(UrlOf(n))]
  /\ connecting' = connecting \ {n}
  /\ UNCHANGED <<phase, defaultConnectionName, gcArg, gcRes, gcAt, initRes>>
  /\ UNCHANGED <<extVars, cfgVars, txVars, migVars>>

\* createConnection: index.js 318-325, MongoClient.connect rejected: Promise.all
\* of setup (line 150) rejects and setup throws; the other calls go on.
createConnectionRejected(n) ==
  /\ n \in connecting
  /\ connecting' = connecting \ {n}
  /\ phase' = "failed"
  /\ UNCHANGED <<defaultConnectionName, connections, gcArg, gcRes, gcAt, initRes>>
  /\ UNCHANGED <<extVars, cfgVars, txVars, migVars>>

\* A caller of getConnection (an instance property since construction).
getConnectionCall(name) ==
  /\ gcArg' = name
  /\ gcRes' = getConnection(name)
  /\ gcAt' = [connections |-> connections, default |-> defaultConnectionName]
  /\ UNCHANGED <<phase, defaultConnectionName, connections, connecting, initRes>>
  /\ UNCHANGED <<extVars, cfgVars, txVars, migVars>>

\* ---------------------------------------------------------------- teardown
\* The names teardown iterates over: Object.keys(this.connections), index.js 207.
ConnectionKeys == {k \in Keys : connections[k] # Undef}

\* closeConnection: index.js 347, up to the call of close() on the client; the
\* value is the key of the client close() is called on.  A value that is not a
\* client (undefined, an inherited function) has no close().
closeConnection(name) ==
  LET c == getConnection(name)
  IN IF c.kind = "throw" THEN c
     ELSE IF c.value = Undef \/ c.value \in {Fn(n) : n \in Inherited}
          THEN Throw(TypeError)
          ELSE Return(IF name \in Falsy THEN defaultConnectionName ELSE name)

\* teardown: index.js 205-208.  map calls closeConnection for every key of the
\* connection table, so close() is issued on every client of the table, open
\* or closed, before any of the calls completes.
teardown ==
  /\ tdpc = "idle"
  /\ teardowns < MaxTeardowns
  /\ closing' = closing \cup
       {[by |-> "teardown", call |-> teardowns, key |-> closeConnection(k).value] :
          k \in {n \in ConnectionKeys : closeConnection(n).kind = "return"}}
  /\ tdAtCall' = [keys |-> ConnectionKeys, open |-> ConnectionKeys \ closedClients]
  /\ IF \E k \in ConnectionKeys : closeConnection(k).kind = "throw"
     THEN /\ tdRes' = (CHOOSE r \in {closeConnection(k) : k \in ConnectionKeys} :
                         r.kind = "throw")
          /\ tdpc' = "thrown"
     ELSE /\ tdRes' = None
          /\ tdpc' = "closing"
  /\ UNCHANGED <<closedClients, teardowns, tdFirst, ccRes>>
  /\ UNCHANGED <<regVars, repoVars, cfgVars, connVars, txVars, migVars>>

\* client.close() (index.js 347) completes.  Resolved, the client is closed (a
\* client that was closed already stays so).  Rejected, the client is left as
\* it was, and the Promise.all of the teardown that issued the call (index.js
\* 206) rejects with the error at once, whatever its other calls do later.
clientClose(c, rejected) ==
  /\ c \in closing
  /\ closing' = closing \ {c}
  /\ closedClients' = IF rejected THEN closedClients ELSE closedClients \cup {c.key}
  /\ IF rejected /\ c.by = "teardown" /\ c.call = teardowns /\ tdpc = "closing"
     THEN /\ tdRes' = Throw(Err("close failed"))
          /\ teardowns' = teardowns + 1
          /\ tdFirst' = IF teardowns = 0
                        THEN [keys |-> ConnectionKeys, closed |-> closedClients]
                        ELSE tdFirst
          /\ tdpc' = "idle"
     ELSE UNCHANGED <<tdpc, tdRes, teardowns, tdFirst>>
  /\ UNCHANGED <<tdAtCall, ccRes>>
  /\ UNCHANGED <<regVars, repoVars, cfgVars, connVars, txVars, migVars>>

\* teardown: index.js 205-208, Promise.all resolves once every close() of the
\* call has, with the array of what they resolved with: one undefined for
\* every key the table had at the call.
teardownResolved ==
  /\ tdpc = "closing"
  /\ \A c \in closing : ~(c.by = "teardown" /\ c.call = teardowns)
  /\ tdRes' = Return([i \in 1..Cardinality(tdAtCall.keys) |-> Undef])
  /\ teardowns' = teardowns + 1
  /\ tdFirst' = IF teardowns = 0
                THEN [keys |-> ConnectionKeys, closed |-> closedClients]
                ELSE tdFirst
  /\ tdpc' = "idle"
  /\ UNCHANGED <<closedClients, closing, tdAtCall, ccRes>>
  /\ UNCHANGED <<regVars, repoVars, cfgVars, connVars, txVars, migVars>>

\* A caller of closeConnection (an instance property, index.js 347; exported at
\* 175-177): close() is issued on the client the name resolves to.
closeConnectionCall(name) ==
  LET c == closeConnection(name) IN
  /\ ccRes.calls < MaxCloses
  /\ ccRes' = [calls |-> ccRes.calls + 1, res |-> c]
  /\ closing' = (IF c.kind = "throw" THEN closing
                 ELSE closing \cup {[by |-> "caller", call |-> ccRes.calls,
                                     key |-> c.value]})
  /\ UNCHANGED <<closedClients, tdpc, tdRes, teardowns, tdAtCall, tdFirst>>
  /\ UNCHANGED <<regVars, repoVars, cfgVars, connVars, txVars, migVars>>

\* ------------------------------------------------------------ transaction
\* A write fn issues through the handle it was given.  fn is called as
\* fn(db, this) (index.js 355, 358): it receives the db handle and never the
\* session, so the write is outside the session's transaction and reaches the
\* store at once.
WriteThroughHandle(w) == store \cup {w}

\* transaction: index.js 351-358, up to the invocation of fn.
transaction(caller, owner, connectionName) ==
  LET db == getConnectionDb(connectionName) IN
  /\ txpc = "idle"
  /\ txCaller' = caller
  /\ fnOwner' = owner
  /\ storeAtCall' = store
  /\ fnW' = 0
  /\ fnOut' = None
  /\ fnThrows' = 0
  /\ IF db.kind = "throw"
     THEN /\ txRes' = db
          /\ txpc' = "done"
          /\ fnCalls' = 0
          /\ txState' = "none"
     ELSE /\ txRes' = None
          /\ txpc' = "fn"
          /\ fnCalls' = 1
          /\ txState' = IF txEnabled THEN "open" ELSE "none"
  /\ UNCHANGED store

\* fn(db, this) running: one write.
fnWrite ==
  /\ txpc = "fn"
  /\ fnW < MaxWrites
  /\ store' = WriteThroughHandle(<<fnOwner, fnW + 1>>)
  /\ fnW' = fnW + 1
  /\ UNCHANGED <<txState, txpc, txCaller, fnOwner, fnOut, fnCalls, txRes,
                 fnThrows, storeAtCall, calls>>
  /\ UNCHANGED <<extVars, cfgVars, connVars, migVars>>

\* fn(db, this) resolves: an up operation after all of its writes, an
\* application's fn after any number of writes.
fnReturn ==
  /\ txpc = "fn"
  /\ txCaller = "migrator" => fnW = MaxWrites
  /\ fnOut' = Return(FnValue)
  /\ txpc' = "fnEnd"
  /\ UNCHANGED <<store, txState, txCaller, fnOwner, fnW, fnCalls, txRes,
                 fnThrows, storeAtCall, calls>>
  /\ UNCHANGED <<extVars, cfgVars, connVars, migVars>>

\* fn(db, this) rejects with e.
fnThrow(e) ==
  /\ txpc = "fn"
  /\ fnOut' = Throw(e)
  /\ fnThrows' = fnThrows + 1
  /\ txpc' = "fnEnd"
  /\ UNCHANGED <<store, txState, txCaller, fnOwner, fnW, fnCalls, txRes,
                 storeAtCall, calls>>
  /\ UNCHANGED <<extVars, cfgVars, connVars, migVars>>

\* Faulty variant of transactionDirect: fn's rejection is swallowed.
transactionDirectSwallow ==
  /\ txpc = "fnEnd"
  /\ ~txEnabled
  /\ txRes' = Return(Undef)
  /\ txpc' = "done"
  /\ UNCHANGED <<store, txState, txCaller, fnOwner, fnW, fnOut, fnCalls,
                 fnThrows, storeAtCall, calls>>
  /\ UNCHANGED <<extVars, cfgVars, connVars, migVars>>

\* transaction: index.js 354-356, transactional mode off: return fn(db, this).
transactionDirect ==
  /\ txpc = "fnEnd"
  /\ ~txEnabled
  /\ txRes' = fnOut
  /\ txpc' = "done"
  /\ UNCHANGED <<store, txState, txCaller, fnOwner, fnW, fnOut, fnCalls,
                 fnThrows, storeAtCall, calls>>
  /\ UNCHANGED <<extVars, cfgVars, connVars, migVars>>

\* withTransaction (index.js 358): the callback resolved, the transaction is
\* committed.  No operation was issued in the session, so the commit cannot
\* fail.  What the promise resolves to depends on the driver's version: the
\* commit's result or the callback's value.
withTransactionCommit ==
  /\ txpc = "fnEnd"
  /\ txEnabled
  /\ fnOut.kind = "return"
  /\ txState' = "committed"
  /\ \E v \in {CommitResult, fnOut.value} : txRes' = Return(v)
  /\ txpc' = "done"
  /\ UNCHANGED <<store, txCaller, fnOwner, fnW, fnOut, fnCalls, fnThrows, storeAtCall, calls>>
  /\ UNCHANGED <<extVars, cfgVars, connVars, migVars>>

\* Faulty variant of withTransactionAbort: the transaction of a failed callback is left
\* as it is.
withTransactionNoAbort ==
  /\ txpc = "fnEnd"
  /\ txEnabled
  /\ fnOut.kind = "throw"
  /\ txpc' = "aborted"
  /\ UNCHANGED <<store, txState, txCaller, fnOwner, fnW, fnOut, fnCalls, txRes,
                 fnThrows, storeAtCall, calls>>
  /\ UNCHANGED <<extVars, cfgVars, connVars, migVars>>

\* withTransaction (index.js 358): the callback rejected, the transaction is
\* aborted.  The abort undoes the operations of the session: there are none.
withTransactionAbort ==
  /\ txpc = "fnEnd"
  /\ txEnabled
  /\ fnOut.kind = "throw"
  /\ txState' = "aborted"
  /\ txpc' = "aborted"
  /\ UNCHANGED <<store, txCaller, fnOwner, fnW, fnOut, fnCalls, txRes,
                 fnThrows, storeAtCall, calls>>
  /\ UNCHANGED <<extVars, cfgVars, connVars, migVars>>

\* withTransaction (index.js 358): after the abort of a callback that failed
\* with a TransientTransactionError, within the driver's time limit: a new
\* transaction is started and the callback runs again.
withTransactionRetry ==
  /\ txpc = "aborted"
  /\ fnOut.error.transient
  /\ fnCalls < MaxAttempts
  /\ txState' = "open"
  /\ txpc' = "fn"
  /\ fnCalls' = fnCalls + 1
  /\ fnW' = 0
  /\ fnOut' = None
  /\ UNCHANGED <<store, txCaller, fnOwner, txRes, fnThrows, storeAtCall, calls>>
  /\ UNCHANGED <<extVars, cfgVars, connVars, migVars>>

\* Faulty variant of withTransactionRethrow: the callback's error is dropped after the
\* abort.
withTransactionRethrowSwallow ==
  /\ txpc = "aborted"
  /\ txRes' = Return(Undef)
  /\ txpc' = "done"
  /\ UNCHANGED <<store, txState, txCaller, fnOwner, fnW, fnOut, fnCalls,
                 fnThrows, storeAtCall, calls>>
  /\ UNCHANGED <<extVars, cfgVars, connVars, migVars>>

\* withTransaction (index.js 358): after the abort, the callback's error is
\* rethrown (the error is not transient, or the time limit has run out).
withTransactionRethrow ==
  /\ txpc = "aborted"
  /\ txRes' = fnOut
  /\ txpc' = "done"
  /\ UNCHANGED <<store, txState, txCaller, fnOwner, fnW, fnOut, fnCalls,
                 fnThrows, storeAtCall, calls>>
  /\ UNCHANGED <<extVars, cfgVars, connVars, migVars>>

\* The steps of a transaction(fn) call after its start.
TxStep ==
  \/ fnWrite
  \/ fnReturn
  \/ \E e \in {PlainError, TransientError} : fnThrow(e)
  \/ transactionDirect
  \/ withTransactionCommit
  \/ withTransactionAbort
  \/ withTransactionRetry
  \/ withTransactionRethrow

\* An application module calls the exported transaction (index.js 182).
appCall(connectionName) ==
  /\ phase = "ready"
  /\ calls < MaxCalls
  /\ calls' = calls + 1
  /\ transaction("app", 0, connectionName)
  /\ UNCHANGED <<extVars, cfgVars, connVars, migVars>>

\* The caller has taken the result of transaction(fn): the call's session and
\* locals are gone, what fn wrote stays in the store.
TxClear ==
  /\ txpc' = "idle"
  /\ txCaller' = "none"
  /\ txState' = "none"
  /\ fnOwner' = 0
  /\ fnW' = 0
  /\ fnOut' = None
  /\ fnCalls' = 0
  /\ fnThrows' = 0
  /\ txRes' = None
  /\ storeAtCall' = {}
  /\ UNCHANGED <<store, calls>>

\* The application takes the result of its call.
appDone ==
  /\ txpc = "done"
  /\ txCaller = "app"
  /\ TxClear
  /\ UNCHANGED <<extVars, cfgVars, connVars, migVars>>

\* -------------------------------------------------------- migration files
\* Faulty variant of loadMigrationsFromModule: only the first file of the module is
\* pushed.
loadMigrationsFirstFileOnly(m) ==
  /\ phase = "loading"
  /\ <<"loadMigrations", m>> \in toLoad
  /\ toLoad' = toLoad \ {<<"loadMigrations", m>>}
  /\ files' = IF autoload[m] /\ moduleFiles[m] # <<>>
              THEN Append(files, Head(moduleFiles[m])) ELSE files
  /\ UNCHANGED <<migrations, runpc, pending, cur, runRes, runs, log, failedUnit,
                 upStarted, upFailed, upFailedAt, migAtStart, pendingAtStart,
                 history>>
  /\ UNCHANGED <<extVars, cfgVars, connVars, txVars>>

\* loadMigrationsFromModule: index.js 258-271.  The files the module's glob
\* yields are pushed onto migrator.files in the order the modules' hooks
\* complete; a module with migrations.autoload off contributes nothing.
loadMigrationsFromModule(m) ==
  /\ phase = "loading"
  /\ <<"loadMigrations", m>> \in toLoad
  /\ toLoad' = toLoad \ {<<"loadMigrations", m>>}
  /\ files' = IF autoload[m] THEN files \o moduleFiles[m] ELSE files
  /\ UNCHANGED <<migrations, runpc, pending, cur, runRes, runs, log, failedUnit,
                 upStarted, upFailed, upFailedAt, migAtStart, pendingAtStart,
                 history>>
  /\ UNCHANGED <<extVars, cfgVars, connVars, txVars>>

\* The migration units the modules contribute.
ContributedUnits == UNION {Range(moduleFiles[m]) : m \in {x \in Modules : autoload[x]}}

\* ------------------------------------------------------- migration runner
\* (specification 4.6; libs/Migrator.js is not among the source files)

\* Faulty variant of discover: the files in the order the modules pushed them.
discoverUnsorted == files

\* Discovery: the units in lexicographic identifier order.
discover == SortedSeq(Range(files))

\* The identifiers recorded in the migrations collection.
applied == {r.identifier : r \in migrations}

\* run(): the applied identifiers are loaded and the ordered pending subset is
\* computed.
MigratorRun ==
  /\ phase = "ready"
  /\ runpc = "idle"
  /\ txpc = "idle"
  /\ runs < MaxRuns
  /\ runs' = runs + 1
  /\ pending' = Filter(discover, Range(files) \ applied)
  /\ pendingAtStart' = pending'
  /\ migAtStart' = migrations
  /\ upStarted' = <<>>
  /\ upFailed' = FALSE
  /\ upFailedAt' = 0
  /\ runRes' = None
  /\ log' = <<>>
  /\ failedUnit' = 0
  /\ runpc' = "next"
  /\ UNCHANGED <<files, toLoad, migrations, cur, history>>
  /\ UNCHANGED <<extVars, cfgVars, connVars, txVars>>

\* run(): the next pending unit's up operation is executed inside
\* transaction(fn) (createMigrator hands this.transaction to the runner,
\* index.js 282) on the default connection.
MigratorApply ==
  /\ runpc = "next"
  /\ pending # <<>>
  /\ cur' = Head(pending)
  /\ upStarted' = Append(upStarted, Head(pending))
  /\ runpc' = "applying"
  /\ transaction("migrator", Head(pending), Undef)
  /\ UNCHANGED <<files, toLoad, migrations, pending, runRes, runs, log, upFailed,
                 failedUnit,
                 upFailedAt, migAtStart, pendingAtStart, history, calls>>
  /\ UNCHANGED <<extVars, cfgVars, connVars>>

\* run(): the unit's transaction returned: its record is written before the
\* next unit; progress is reported unless the runner is silent.
MigratorRecord ==
  /\ runpc = "applying"
  /\ txpc = "done"
  /\ txRes.kind = "return"
  /\ migrations' = migrations \cup
       {[identifier |-> cur, appliedAt |-> runs, success |-> TRUE]}
  /\ pending' = Tail(pending)
  /\ log' = IF silent THEN log ELSE Append(log, cur)
  /\ upFailed' = (upFailed \/ fnThrows > 0)
  /\ upFailedAt' = IF fnOut.kind = "throw" THEN cur ELSE upFailedAt
  /\ runpc' = "next"
  /\ TxClear
  /\ UNCHANGED <<files, toLoad, cur, runRes, runs, failedUnit, upStarted,
                 migAtStart, pendingAtStart, history>>
  /\ UNCHANGED <<extVars, cfgVars, connVars>>

\* Faulty variant of MigratorFail: the failure is noted and the run goes on with the
\* next unit.
MigratorFailContinue ==
  /\ runpc = "applying"
  /\ txpc = "done"
  /\ txRes.kind = "throw"
  /\ failedUnit' = cur
  /\ upFailed' = TRUE
  /\ upFailedAt' = IF fnOut.kind = "throw" THEN cur ELSE upFailedAt
  /\ pending' = Tail(pending)
  /\ runpc' = "next"
  /\ TxClear
  /\ UNCHANGED <<files, toLoad, migrations, cur, runRes, runs, log, upStarted,
                 migAtStart, pendingAtStart, history>>
  /\ UNCHANGED <<extVars, cfgVars, connVars>>

\* Faulty variant of MigratorFail: the records written by the failing run are rolled
\* back.
MigratorFailRollback ==
  /\ runpc = "applying"
  /\ txpc = "done"
  /\ txRes.kind = "throw"
  /\ runRes' = Throw([name |-> "MigrationFailedError", identifier |-> cur])
  /\ failedUnit' = cur
  /\ upFailed' = TRUE
  /\ upFailedAt' = IF fnOut.kind = "throw" THEN cur ELSE upFailedAt
  /\ migrations' = migAtStart
  /\ history' = Append(history,
       [res |-> "throw", failed |-> cur, ups |-> upStarted, upFailed |-> TRUE,
        changed |-> FALSE])
  /\ runpc' = "idle"
  /\ TxClear
  /\ UNCHANGED <<files, toLoad, pending, cur, runs, log, upStarted,
                 migAtStart, pendingAtStart>>
  /\ UNCHANGED <<extVars, cfgVars, connVars>>

\* run(): the unit's transaction threw: the run is aborted at once with
\* MigrationFailedError naming the unit; nothing is recorded for it.
MigratorFail ==
  /\ runpc = "applying"
  /\ txpc = "done"
  /\ txRes.kind = "throw"
  /\ runRes' = Throw([name |-> "MigrationFailedError", identifier |-> cur])
  /\ failedUnit' = cur
  /\ upFailed' = TRUE
  /\ upFailedAt' = IF fnOut.kind = "throw" THEN cur ELSE upFailedAt
  /\ history' = Append(history,
       [res |-> "throw", failed |-> cur, ups |-> upStarted, upFailed |-> TRUE,
        changed |-> (migrations # migAtStart)])
  /\ runpc' = "idle"
  /\ TxClear
  /\ UNCHANGED <<files, toLoad, migrations, pending, cur, runs, log, upStarted,
                 migAtStart, pendingAtStart>>
  /\ UNCHANGED <<extVars, cfgVars, connVars>>

\* run(): no pending unit is left: the run ends normally.
MigratorFinish ==
  /\ runpc = "next"
  /\ pending = <<>>
  /\ runRes' = Return("done")
  /\ history' = Append(history,
       [res |-> "return", failed |-> 0, ups |-> upStarted, upFailed |-> upFailed,
        changed |-> (migrations # migAtStart)])
  /\ runpc' = "idle"
  /\ UNCHANGED <<files, toLoad, migrations, pending, cur, runs, log, failedUnit,
                 upStarted, upFailed, upFailedAt, migAtStart, pendingAtStart>>
  /\ UNCHANGED <<extVars, cfgVars, connVars, txVars>>

\* -------------------------------------------------------- relation registry
\* this.relations (index.js 89) is the set of its entries: the entry of
\* this.relations[source][name] carries the descriptor stored there.
\* this.repositories (index.js 91) is the sequence of its entries in the order
\* of insertion, the order Object.keys yields them in.
Truthy(v) == v \notin Falsy

Entry(key, repository) == [key |-> key, repository |-> repository]

\* this.repositories[key]: the repository of the entry, what the table
\* inherits under a key it does not hold, Undef otherwise.
RepositoryAt(key) ==
  IF \E i \in DOMAIN repositories : repositories[i].key = key
  THEN repositories[CHOOSE i \in DOMAIN repositories : repositories[i].key = key].repository
  ELSE IF key \in Inherited THEN Fn(key) ELSE Undef

\* getRepository: index.js 474-480
getRepository(key) ==
  IF RepositoryAt(key) = Undef
  THEN Throw(Err("Unable to find repository"))
  ELSE Return(RepositoryAt(key))

\* A relation node: what addRelation is given as from and to.
Node(c, rn, r, f, n) ==
  [collectionName |-> c, repositoryName |-> rn, repository |-> r, field |-> f,
   name |-> n]

\* extractCollectionName: index.js 367-371,
\* collectionName || (repositoryName && getRepository(...).collectionName)
\*                || (repository && repository.collectionName)
extractCollectionName(relationNode) ==
  IF Truthy(relationNode.collectionName)
  THEN Return(relationNode.collectionName)
  ELSE LET g == getRepository(relationNode.repositoryName)
           viaRepository == IF Truthy(relationNode.repository)
                            THEN Return(CollOf(relationNode.repository))
                            ELSE Return(relationNode.repository)
       IN IF ~Truthy(relationNode.repositoryName) THEN viaRepository
          ELSE IF g.kind = "throw" THEN g
          ELSE IF Truthy(CollOf(g.value)) THEN Return(CollOf(g.value))
          ELSE viaRepository

\* The descriptor addRelation stores: index.js 387-392
Descriptor(from, to, type) ==
  [collectionName |-> to.collectionName, localField |-> from.field,
   foreignField |-> to.field, type |-> type]

\* The entry of R that holds descriptor d as relations[source][name].
Edge(source, name, d) ==
  [source |-> source, name |-> name, collectionName |-> d.collectionName,
   localField |-> d.localField, foreignField |-> d.foreignField, type |-> d.type]

\* R[source][name], read where R[source] is an object: the descriptor stored
\* there, else the function the object inherits under the name, Absent when
\* there is neither.  R[source] of a source without relations is what R itself
\* inherits, a function, whose constructor is Function.
Rel(R, source, name) ==
  IF \E e \in R : e.source = source /\ e.name = name
  THEN LET e == CHOOSE e \in R : e.source = source /\ e.name = name
       IN [collectionName |-> e.collectionName, localField |-> e.localField,
           foreignField |-> e.foreignField, type |-> e.type]
  ELSE IF name \in Inherited /\ (\E e \in R : e.source = source)
       THEN [kind |-> "function", name |-> Fn(name)]
       ELSE IF name \in Inherited /\ source \in Inherited
            THEN [kind |-> "function",
                  name |-> IF name = "constructor" THEN "function Function"
                           ELSE Fn(name)]
            ELSE Absent

\* addRelation: index.js 383-392, on the registry R: the descriptor is
\* assigned to R[from.collectionName][from.name], whatever was there.
SetRelation(R, from, to, type) ==
  {e \in R : ~(e.source = from.collectionName /\ e.name = from.name)}
    \cup {Edge(from.collectionName, from.name, Descriptor(from, to, type))}

\* Faulty variant of addRelation: a name that is registered for the source
\* collection is rejected.
addRelationRejectRegistered(R, args) ==
  LET f == extractCollectionName(args.from)
      t == extractCollectionName(args.to)
  IN IF f.kind = "throw" THEN [res |-> f, reg |-> R]
     ELSE IF t.kind = "throw" THEN [res |-> t, reg |-> R]
     ELSE IF \E e \in R : e.source = f.value /\ e.name = args.from.name
     THEN [res |-> Throw(Err("DuplicateRelationError")), reg |-> R]
     ELSE LET from == [args.from EXCEPT !.collectionName = f.value]
              to == [args.to EXCEPT !.collectionName = t.value]
          IN [res |-> Return(Undef), reg |-> SetRelation(R, from, to, args.type)]

\* addRelation: index.js 373-401.  Both collection names are extracted before
\* anything is assigned; the nested call for the inverse is given the nodes
\* with their collection names and no inversedType.
addRelation(R, args) ==
  LET f == extractCollectionName(args.from)
      t == extractCollectionName(args.to)
  IN IF f.kind = "throw" THEN [res |-> f, reg |-> R]
     ELSE IF t.kind = "throw" THEN [res |-> t, reg |-> R]
     ELSE LET from == [args.from EXCEPT !.collectionName = f.value]
              to == [args.to EXCEPT !.collectionName = t.value]
              R1 == SetRelation(R, from, to, args.type)
          IN [res |-> Return(Undef),
              reg |-> IF Truthy(args.inversedType) /\ Truthy(to.name)
                      THEN SetRelation(R1, to, from, args.inversedType)
                      ELSE R1]

\* relationToLookup: index.js 403-408.  Reading a property of an absent entry
\* is a TypeError; an inherited function has none of the three properties.
relationToLookup(collectionName, name) ==
  LET relation == Rel(relations, collectionName, name)
  IN IF relation = Absent
     THEN Throw(TypeError)
     ELSE IF "kind" \in DOMAIN relation
          THEN Return([from |-> Undef, localField |-> Undef,
                       foreignField |-> Undef, as |-> name])
          ELSE Return([from |-> relation.collectionName,
                       localField |-> relation.localField,
                       foreignField |-> relation.foreignField,
                       as |-> name])

\* { ...a, ...b }: the keys of both, b's value where b has the key.
Spread(a, b) ==
  [k \in DOMAIN a \cup DOMAIN b |-> IF k \in DOMAIN b THEN b[k] ELSE a[k]]

\* Faulty variant of boundRelationToLookup: the registry's values are spread
\* over the options.
boundRelationToLookupDefaultsWin(repository, name, options) ==
  LET l == relationToLookup(CollOf(repository), name)
  IN IF l.kind = "throw" THEN l ELSE Return(Spread(options, l.value))

\* The relationToLookup bindRepository gives a repository: index.js 437-440
boundRelationToLookup(repository, name, options) ==
  LET l == relationToLookup(CollOf(repository), name)
  IN IF l.kind = "throw" THEN l ELSE Return(Spread(l.value, options))

\* The getRelation bindRepository gives a repository: index.js 441.  The
\* entry of a collection without relations is absent and reading its property
\* a TypeError; an absent name of a collection with relations reads as
\* undefined.
getRelation(repository, name) ==
  IF CollOf(repository) \notin {e.source : e \in relations} \cup Inherited
  THEN Throw(TypeError)
  ELSE Return(Rel(relations, CollOf(repository), name))

\* The hasRelation bindRepository gives a repository: index.js 442.  As with
\* getRelation, the entry of a collection without relations is absent and
\* reading its property a TypeError.
hasRelation(repository, name) ==
  IF getRelation(repository, name).kind = "throw"
  THEN Throw(TypeError)
  ELSE Return(getRelation(repository, name).value # Absent)

NoOp == [name |-> "none"]

\* A module calls the exported addRelation (index.js 190, 197).
addRelationCall(args) ==
  /\ phase = "ready"
  /\ adds < MaxAdds
  /\ adds' = adds + 1
  /\ relBefore' = relations
  /\ LET a == addRelation(relations, args)
     IN /\ relations' = a.reg
        /\ op' = [name |-> "addRelation", args |-> args, res |-> a.res]
  /\ UNCHANGED <<repositories, bound, declared, decls, configures, relAfterFirst>>
  /\ UNCHANGED <<tdVars, repoVars, cfgVars, connVars, txVars, migVars>>

\* A module calls the exported relationToLookup (index.js 191).
relationToLookupCall(collectionName, name) ==
  /\ phase = "ready"
  /\ relBefore' = relations
  /\ op' = [name |-> "relationToLookup",
            args |-> [collectionName |-> collectionName, name |-> name],
            res |-> relationToLookup(collectionName, name)]
  /\ UNCHANGED <<repositories, bound, declared, relations, adds, decls,
                 configures, relAfterFirst>>
  /\ UNCHANGED <<tdVars, repoVars, cfgVars, connVars, txVars, migVars>>

\* A bound repository's relationToLookup(name, options) is called.
boundRelationToLookupCall(repository, name, options) ==
  /\ phase = "ready"
  /\ repository \in bound
  /\ relBefore' = relations
  /\ op' = [name |-> "repository.relationToLookup",
            args |-> [repository |-> repository, name |-> name, options |-> options],
            res |-> boundRelationToLookup(repository, name, options)]
  /\ UNCHANGED <<repositories, bound, declared, relations, adds, decls,
                 configures, relAfterFirst>>
  /\ UNCHANGED <<tdVars, repoVars, cfgVars, connVars, txVars, migVars>>

\* A bound repository's getRelation(name) is called.
getRelationCall(repository, name) ==
  /\ phase = "ready"
  /\ repository \in bound
  /\ relBefore' = relations
  /\ op' = [name |-> "repository.getRelation",
            args |-> [repository |-> repository, name |-> name],
            res |-> getRelation(repository, name)]
  /\ UNCHANGED <<repositories, bound, declared, relations, adds, decls,
                 configures, relAfterFirst>>
  /\ UNCHANGED <<tdVars, repoVars, cfgVars, connVars, txVars, migVars>>

\* A bound repository's hasRelation(name) is called.
hasRelationCall(repository, name) ==
  /\ phase = "ready"
  /\ repository \in bound
  /\ relBefore' = relations
  /\ op' = [name |-> "repository.hasRelation",
            args |-> [repository |-> repository, name |-> name],
            res |-> hasRelation(repository, name)]
  /\ UNCHANGED <<repositories, bound, declared, relations, adds, decls,
                 configures, relAfterFirst>>
  /\ UNCHANGED <<tdVars, repoVars, cfgVars, connVars, txVars, migVars>>

\* -------------------------------------------------------- repository table

\* bindRepository: index.js 422-446.  An array is mapped through this.bind,
\* which the module does not have: the empty array is returned as a new empty
\* array and any other makes the call throw.  For a repository, invariant()
\* throws on a missing collection name; a repository without a collection gets
\* it from getConnectionDb(connectionName).
bindRepository(repository, connectionName) ==
  IF repository \in Arrays
  THEN (IF repository = "[]" THEN Return("[]") ELSE Throw(TypeError))
  ELSE IF ~Truthy(CollOf(repository))
  THEN Throw(Err("Missing repository collection name"))
  ELSE IF repository \notin bound /\ getConnectionDb(connectionName).kind = "throw"
  THEN getConnectionDb(connectionName)
  ELSE Return(repository)

\* addRepository: index.js 457, this.repositories[key] = repository: an
\* entry that exists keeps its place among the keys.
SetRepository(T, key, repository) ==
  IF \E i \in DOMAIN T : T[i].key = key
  THEN [i \in DOMAIN T |->
          IF T[i].key = key THEN Entry(key, repository) ELSE T[i]]
  ELSE Append(T, Entry(key, repository))

\* The getRepository of a repository: Repository.js 22-25 before it is bound,
\* the module's getRepository afterwards (index.js 436).
repositoryGetRepository(repository, key) ==
  IF repository \notin bound
  THEN Throw(Err("Not available! You need to bind the repository first."))
  ELSE getRepository(key)

\* repository.relations (Repository.js 14) of all repositories is the sequence
\* of the entries in the order of insertion: the entry of owner.relations[name]
\* carries what addRelation stored there.  owner.relations[name] is that, else
\* the function the object inherits under the name, Absent when there is
\* neither.
Decl(D, owner, name) ==
  IF \E i \in DOMAIN D : D[i].owner = owner /\ D[i].name = name
  THEN D[CHOOSE i \in DOMAIN D : D[i].owner = owner /\ D[i].name = name].relation
  ELSE IF name \in Inherited
       THEN [kind |-> "function", name |-> Fn(name)]
       ELSE Absent

\* this.relations[name] = relation (Repository.js 39): a name that is a key
\* already keeps its place among the keys.
SetDeclared(D, owner, name, relation) ==
  IF \E i \in DOMAIN D : D[i].owner = owner /\ D[i].name = name
  THEN [i \in DOMAIN D |->
          IF D[i].owner = owner /\ D[i].name = name
          THEN [owner |-> owner, name |-> name, relation |-> relation]
          ELSE D[i]]
  ELSE Append(D, [owner |-> owner, name |-> name, relation |-> relation])

\* Repository.addRelation: Repository.js 35-49, the entry it assigns to
\* this.relations[name], or what it throws.
repositoryAddRelation(this, options) ==
  LET g == IF Truthy(options.repository)
           THEN Return(options.repository)
           ELSE repositoryGetRepository(this, options.repositoryName)
  IN IF g.kind = "throw" THEN g
     ELSE Return([repositoryName |-> options.repositoryName,
                  repository |-> g.value,
                  collectionName |-> IF Truthy(options.collectionName)
                                     THEN options.collectionName
                                     ELSE CollOf(g.value),
                  type |-> options.type,
                  localField |-> options.localField,
                  foreignField |-> options.foreignField])

\* configureRepositories: index.js 490-507, the relations of one repository,
\* over the entries of repository.relations in the order Object.keys yields
\* their names: a throw leaves the names before it registered.
RECURSIVE ConfigureRelations(_, _, _)
ConfigureRelations(R, repository, entries) ==
  IF entries = <<>> THEN [res |-> Return(Undef), reg |-> R]
  ELSE LET relationName == Head(entries).name
           d == Head(entries).relation
           a == addRelation(R,
                  [type |-> d.type, inversedType |-> Undef,
                   from |-> Node(Undef, Undef, repository, d.localField, relationName),
                   to |-> Node(d.collectionName, d.repositoryName, d.repository,
                               d.foreignField, Undef)])
       IN IF a.res.kind = "throw" THEN a
          ELSE ConfigureRelations(a.reg, repository, Tail(entries))

\* configure (Repository.js 18) does nothing unless the repository's class
\* overrides it: the class of u1 declares its relation to the posts of its
\* module there.
Configure(repository) ==
  IF repository = "u1"
  THEN <<[name |-> "items",
          options |-> [repositoryName |-> "m1.Posts", repository |-> Undef,
                       collectionName |-> Undef, type |-> "many",
                       localField |-> "_id", foreignField |-> "ownerId"]]>>
  ELSE <<>>

\* repository.configure(...) (index.js 486-488): the declarations of the
\* repository's configure on repository.relations D, in their order.
RECURSIVE configure(_, _, _)
configure(D, repository, ds) ==
  IF ds = <<>> THEN [res |-> Return(Undef), declared |-> D]
  ELSE LET d == repositoryAddRelation(repository, Head(ds).options)
       IN IF d.kind = "throw" THEN [res |-> d, declared |-> D]
          ELSE configure(SetDeclared(D, repository, Head(ds).name, d.value),
                         repository, Tail(ds))

\* configureRepositories: index.js 482-509, over the keys of the repository
\* table in the order Object.keys yields them: each repository is configured
\* and then its relations are registered.  An array registered as a repository
\* has no configure.
RECURSIVE ConfigureEach(_, _, _)
ConfigureEach(R, D, entries) ==
  IF entries = <<>> THEN [res |-> Return(Undef), reg |-> R, declared |-> D]
  ELSE IF Head(entries).repository \in Arrays
  THEN [res |-> Throw(TypeError), reg |-> R, declared |-> D]
  ELSE LET repository == Head(entries).repository
           c == configure(D, repository, Configure(repository))
           a == ConfigureRelations(R, repository,
                  SelectSeq(c.declared, LAMBDA e : e.owner = repository))
       IN IF c.res.kind = "throw"
          THEN [res |-> c.res, reg |-> R, declared |-> c.declared]
          ELSE IF a.res.kind = "throw"
          THEN [res |-> a.res, reg |-> a.reg, declared |-> c.declared]
          ELSE ConfigureEach(a.reg, c.declared, Tail(entries))

configureRepositories(R, D) == ConfigureEach(R, D, repositories)

\* addRepository: index.js 448-463.  What bindRepository returns is registered:
\* the repository, now bound, or the empty array it was given.
addRepositoryCall(key, repository, connectionName) ==
  LET b == bindRepository(repository, connectionName) IN
  /\ phase = "ready"
  /\ op' = [name |-> "addRepository",
            args |-> [key |-> key, repository |-> repository], res |-> b]
  /\ IF b.kind = "return"
     THEN /\ bound' = bound \cup ({repository} \ Arrays)
          /\ repositories' = SetRepository(repositories, key, b.value)
     ELSE UNCHANGED <<bound, repositories>>
  /\ UNCHANGED <<declared, relations, relBefore, adds, decls, configures,
                 relAfterFirst>>
  /\ UNCHANGED <<tdVars, repoVars, cfgVars, connVars, txVars, migVars>>

\* addRepositories: index.js 465-472, over the keys of the object it is given,
\* in their order: each is registered by addRepository with no options; a
\* throw leaves the ones before it registered.  The value is the object of what
\* was registered under each key.
RECURSIVE addRepositories(_, _, _)
addRepositories(T, B, entries) ==
  IF entries = <<>> THEN [res |-> Return(<<>>), repositories |-> T, bound |-> B]
  ELSE LET b == bindRepository(Head(entries).repository, Undef)
           rest == addRepositories(SetRepository(T, Head(entries).key, b.value),
                                   B \cup ({Head(entries).repository} \ Arrays),
                                   Tail(entries))
       IN IF b.kind = "throw" THEN [res |-> b, repositories |-> T, bound |-> B]
          ELSE IF rest.res.kind = "throw" THEN rest
          ELSE [rest EXCEPT
                  !.res = Return(<<Entry(Head(entries).key, b.value)>>
                                   \o rest.res.value)]

\* A caller of addRepositories (an instance property, index.js 465).
addRepositoriesCall(entries) ==
  LET a == addRepositories(repositories, bound, entries) IN
  /\ phase = "ready"
  /\ op' = [name |-> "addRepositories", args |-> [repositories |-> entries],
            res |-> a.res]
  /\ repositories' = a.repositories
  /\ bound' = a.bound
  /\ UNCHANGED <<declared, relations, relBefore, adds, decls, configures,
                 relAfterFirst>>
  /\ UNCHANGED <<tdVars, repoVars, cfgVars, connVars, txVars, migVars>>

\* createRepository: index.js 410-420, with the repository it constructs.
createRepositoryCall(repository, connectionName) ==
  LET b == bindRepository(repository, connectionName) IN
  /\ phase = "ready"
  /\ repository \notin bound
  /\ \A i \in DOMAIN repositories : repositories[i].repository # repository
  /\ op' = [name |-> "createRepository",
            args |-> [repository |-> repository], res |-> b]
  /\ bound' = IF b.kind = "return" THEN bound \cup {repository} ELSE bound
  /\ UNCHANGED <<repositories, declared, relations, relBefore, adds, decls,
                 configures, relAfterFirst>>
  /\ UNCHANGED <<tdVars, repoVars, cfgVars, connVars, txVars, migVars>>

\* A module calls the exported bindRepository (index.js 188).
bindRepositoryCall(repository, connectionName) ==
  LET b == bindRepository(repository, connectionName) IN
  /\ phase = "ready"
  /\ op' = [name |-> "bindRepository",
            args |-> [repository |-> repository], res |-> b]
  /\ bound' = IF b.kind = "return" THEN bound \cup ({repository} \ Arrays) ELSE bound
  /\ UNCHANGED <<repositories, declared, relations, relBefore, adds, decls,
                 configures, relAfterFirst>>
  /\ UNCHANGED <<tdVars, repoVars, cfgVars, connVars, txVars, migVars>>

\* A module calls the exported getRepository (index.js 186).
getRepositoryCall(key) ==
  /\ phase = "ready"
  /\ op' = [name |-> "getRepository", args |-> [key |-> key],
            res |-> getRepository(key)]
  /\ UNCHANGED <<repositories, bound, declared, relations, relBefore, adds,
                 decls, configures, relAfterFirst>>
  /\ UNCHANGED <<tdVars, repoVars, cfgVars, connVars, txVars, migVars>>

\* getRepository is called on a repository.
repositoryGetRepositoryCall(repository, key) ==
  /\ phase = "ready"
  /\ op' = [name |-> "repository.getRepository",
            args |-> [repository |-> repository, key |-> key],
            res |-> repositoryGetRepository(repository, key)]
  /\ UNCHANGED <<repositories, bound, declared, relations, relBefore, adds,
                 decls, configures, relAfterFirst>>
  /\ UNCHANGED <<tdVars, repoVars, cfgVars, connVars, txVars, migVars>>

\* Faulty variant of repositoryRelationToLookup: the options are spread first.
repositoryRelationToLookupDefaultsWin(this, name, options) ==
  LET relation == Decl(declared, this, name)
  IN IF relation = Absent
     THEN Throw(TypeError)
     ELSE IF "kind" \in DOMAIN relation
          THEN Return(Spread(options,
                             [from |-> Undef, localField |-> Undef,
                              foreignField |-> Undef, as |-> name]))
          ELSE Return(Spread(options,
                             [from |-> relation.collectionName,
                              localField |-> relation.localField,
                              foreignField |-> relation.foreignField,
                              as |-> name]))

\* Repository.relationToLookup: Repository.js 51-61, the method of a repository
\* that was not bound.  The entries addRelation stores have no `as`, so
\* `as || name` is the name; a name this.relations inherits reads as a function
\* with none of the properties.
repositoryRelationToLookup(this, name, options) ==
  LET relation == Decl(declared, this, name)
  IN IF relation = Absent
     THEN Throw(TypeError)
     ELSE IF "kind" \in DOMAIN relation
          THEN Return(Spread([from |-> Undef, localField |-> Undef,
                              foreignField |-> Undef, as |-> name],
                             options))
          ELSE Return(Spread([from |-> relation.collectionName,
                              localField |-> relation.localField,
                              foreignField |-> relation.foreignField,
                              as |-> name],
                             options))

\* relationToLookup(name, options) is called on a repository that was not bound.
repositoryRelationToLookupCall(repository, name, options) ==
  /\ phase = "ready"
  /\ repository \notin bound
  /\ relBefore' = relations
  /\ op' = [name |-> "Repository.relationToLookup",
            args |-> [repository |-> repository, name |-> name, options |-> options],
            res |-> repositoryRelationToLookup(repository, name, options)]
  /\ UNCHANGED <<repositories, bound, declared, relations, adds, decls,
                 configures, relAfterFirst>>
  /\ UNCHANGED <<tdVars, repoVars, cfgVars, connVars, txVars, migVars>>

\* addRelation is called on a repository (Repository.js 35-49).
repositoryAddRelationCall(repository, name, options) ==
  LET d == repositoryAddRelation(repository, options) IN
  /\ phase = "ready"
  /\ decls < MaxDecls
  /\ decls' = decls + 1
  /\ op' = [name |-> "repository.addRelation",
            args |-> [repository |-> repository, name |-> name, options |-> options],
            res |-> IF d.kind = "throw" THEN d ELSE Return(repository)]
  /\ declared' = IF d.kind = "throw" THEN declared
                 ELSE SetDeclared(declared, repository, name, d.value)
  /\ UNCHANGED <<repositories, bound, relations, relBefore, adds, configures,
                 relAfterFirst>>
  /\ UNCHANGED <<tdVars, repoVars, cfgVars, connVars, txVars, migVars>>

\* configureRepositories() is called: by loadFromModules (index.js 224) and
\* again by whoever binds the repositories anew.
configureRepositoriesCall ==
  LET a == configureRepositories(relations, declared) IN
  /\ phase = "ready"
  /\ configures < MaxConfigures
  /\ configures' = configures + 1
  /\ relBefore' = relations
  /\ relations' = a.reg
  /\ declared' = a.declared
  /\ relAfterFirst' = IF configures = 0
                      THEN [reg |-> a.reg, declared |-> declared, res |-> a.res]
                      ELSE relAfterFirst
  /\ op' = [name |-> "configureRepositories", args |-> [n |-> configures + 1],
            res |-> a.res]
  /\ UNCHANGED <<repositories, bound, adds, decls>>
  /\ UNCHANGED <<tdVars, repoVars, cfgVars, connVars, txVars, migVars>>

\* ----------------------------------------------------------- module loading
\* The hook calls loadFromModules issues (index.js 211-221): loadRepositories
\* on every module and, with migrations enabled, loadMigrations on every
\* module.
HookCalls ==
  {<<"loadRepositories", m>> : m \in Modules}
    \cup (IF migrationEnabled THEN {<<"loadMigrations", m>> : m \in Modules}
          ELSE {})

\* setup: index.js 150-156, every connect call has resolved.  With migrations
\* enabled createMigrator (273-292) registers the migration repository under
\* 'Migration' and takes the db of the default connection; then loadFromModules
\* issues its hook calls.
setupConnected ==
  LET b == bindRepository("mig", Undef)
      db == getConnectionDb(Undef)
      created == ~migrationEnabled \/ (b.kind = "return" /\ db.kind = "return")
  IN
  /\ phase = "connecting"
  /\ connecting = {}
  /\ IF migrationEnabled /\ b.kind = "return"
     THEN /\ repositories' = SetRepository(repositories, "Migration", "mig")
          /\ bound' = bound \cup {"mig"}
     ELSE UNCHANGED <<repositories, bound>>
  /\ phase' = IF created THEN "loading" ELSE "failed"
  /\ toLoad' = IF created THEN HookCalls ELSE toLoad
  /\ UNCHANGED <<defaultConnectionName, connections, connecting, gcArg, gcRes, gcAt,
                 initRes>>
  /\ UNCHANGED <<declared, relations, op, relBefore, adds, decls, configures,
                 relAfterFirst>>
  /\ UNCHANGED <<files, migrations, runpc, pending, cur, runRes, runs, log,
                 failedUnit, upStarted, upFailed, upFailedAt, migAtStart,
                 pendingAtStart, history>>
  /\ UNCHANGED <<tdVars, repoVars, cfgVars, txVars>>

\* loadRepositoriesFromModule: index.js 242-255, the files of a module in the
\* order glob yields them: each repository is constructed and registered under
\* the module's name and its own (addRepository, 448-463).
RECURSIVE LoadRepositories(_, _, _, _)
LoadRepositories(T, B, m, fs) ==
  IF fs = <<>> THEN [res |-> Return(Undef), repositories |-> T, bound |-> B]
  ELSE LET b == bindRepository(Head(fs), Undef)
       IN IF b.kind = "throw" THEN [res |-> b, repositories |-> T, bound |-> B]
          ELSE LoadRepositories(SetRepository(T, RepositoryKey(m, Head(fs)), Head(fs)),
                                B \cup {Head(fs)}, m, Tail(fs))

\* loadRepositoriesFromModule: index.js 230-256, the loadRepositories hook on
\* one module; a module with repositories.autoload off contributes nothing.
loadRepositoriesFromModule(m) ==
  LET a == IF moduleRepositories[m].autoload
           THEN LoadRepositories(repositories, bound, m, moduleRepositories[m].files)
           ELSE [res |-> Return(Undef), repositories |-> repositories, bound |-> bound]
  IN
  /\ phase = "loading"
  /\ <<"loadRepositories", m>> \in toLoad
  /\ toLoad' = toLoad \ {<<"loadRepositories", m>>}
  /\ repositories' = a.repositories
  /\ bound' = a.bound
  /\ phase' = IF a.res.kind = "throw" THEN "failed" ELSE phase
  /\ UNCHANGED <<defaultConnectionName, connections, connecting, gcArg, gcRes, gcAt,
                 initRes>>
  /\ UNCHANGED <<declared, relations, op, relBefore, adds, decls, configures,
                 relAfterFirst>>
  /\ UNCHANGED <<files, migrations, runpc, pending, cur, runRes, runs, log,
                 failedUnit, upStarted, upFailed, upFailedAt, migAtStart,
                 pendingAtStart, history>>
  /\ UNCHANGED <<tdVars, repoVars, cfgVars, txVars>>

\* loadFromModules: index.js 210-225, every hook call has completed: the
\* repositories are configured (224); setup (156-203) goes on and exports the
\* module's operations unless that threw.
loadFromModules ==
  LET a == configureRepositories(relations, declared) IN
  /\ phase = "loading"
  /\ toLoad = {}
  /\ relations' = a.reg
  /\ declared' = a.declared
  /\ phase' = IF a.res.kind = "throw" THEN "failed" ELSE "ready"
  /\ UNCHANGED <<defaultConnectionName, connections, connecting, gcArg, gcRes, gcAt,
                 initRes>>
  /\ UNCHANGED <<repositories, bound, op, relBefore, adds, decls, configures,
                 relAfterFirst>>
  /\ UNCHANGED <<tdVars, repoVars, cfgVars, txVars, migVars>>

\* ---------------------------------------------------- repository operations
\* Values as the store holds them: a string, or the identifier ObjectID makes of
\* a string of 24 hex characters.
Str(s) == [type |-> "string", v |-> s]
Oid(h) == [type |-> "ObjectID", v |-> h]

\* An array of values, as a filter gives one to a list field (id_in).
List(values) == [type |-> "list", items |-> values]

\* Strings of 24 hex characters, by number.
Hex == <<"5d0000000000000000000001", "5d0000000000000000000002",
         "5d0000000000000000000003", "5d0000000000000000000004",
         "5d0000000000000000000005", "5d0000000000000000000006",
         "5d0000000000000000000007">>

\* validate of the class: Repository.js 20.  It accepts every input and has
\* no errors property.
validate(data) == TRUE

\* The predicate the class of "p1" supplies as its validate (sections 1 and 3),
\* by the constraints it leaves in validate.errors when it rejects: a name is
\* required and the rank is at least 1.  It accepts when there is none.
Violations(data) ==
  (IF data.name = Str("") THEN {"name: required"} ELSE {})
    \cup (IF data.rank < 1 THEN {"rank: minimum 1"} ELSE {})

ValidationError(errors) ==
  [message |-> "ValidationError", transient |-> FALSE, errors |-> errors]

\* Faulty variant of parse: the data is returned without being validated.
parseUnchecked(this, data) == Return(data)

\* parse: Repository.js 27-33, on repository this: this.validate is the
\* predicate its class supplied, the one of Repository.js 20 when it supplied
\* none.
parse(this, data) ==
  LET thisValidate == IF this = "p1" THEN Violations(data) = {} ELSE validate(data)
      thisValidateErrors == IF this = "p1" THEN Violations(data) ELSE Undef
  IN IF ~thisValidate THEN Throw(ValidationError(thisValidateErrors))
     ELSE Return(data)

\* The identifier the driver gives an inserted document: one no document of
\* the collection has.
NewId(C) == Oid(Hex[CHOOSE i \in DOMAIN Hex :
                      /\ \A d \in C : d.id # Oid(Hex[i])
                      /\ \A j \in 1..(i - 1) : \E d \in C : d.id = Oid(Hex[j])])

\* createOne (section 4.3): the input is passed through parse and what parse
\* returns is inserted.
createOne(this, C, data) ==
  LET p == parse(this, data)
  IN IF p.kind = "throw" THEN [res |-> p, coll |-> C]
     ELSE LET doc == [id |-> NewId(C), name |-> p.value.name, rank |-> p.value.rank]
          IN [res |-> Return(doc), coll |-> C \cup {doc}]

\* updateOne (section 4.3) of the document with an identifier: the input is
\* passed through parse and what parse returns is set on the document; no
\* document with the identifier, nothing is written.
updateOne(this, C, id, data) ==
  LET p == parse(this, data)
  IN IF p.kind = "throw" THEN [res |-> p, coll |-> C]
     ELSE IF \A d \in C : d.id # id THEN [res |-> Return(Absent), coll |-> C]
     ELSE LET doc == [id |-> id, name |-> p.value.name, rank |-> p.value.rank]
          IN [res |-> Return(doc), coll |-> {d \in C : d.id # id} \cup {doc}]

\* createOne(data) is called on a repository.
createOneCall(this, data) ==
  LET a == createOne(this, collection, data) IN
  /\ phase = "ready"
  /\ Cardinality(collection) < MaxDocs
  /\ rop' = [name |-> "createOne", args |-> [repository |-> this, input |-> data],
             res |-> a.res, parsed |-> parse(this, data), before |-> collection]
  /\ collection' = a.coll
  /\ UNCHANGED <<tdVars, regVars, cfgVars, connVars, txVars, migVars>>

\* updateOne(where, data) is called on a repository.
updateOneCall(this, id, data) ==
  LET a == updateOne(this, collection, id, data) IN
  /\ phase = "ready"
  /\ rop' = [name |-> "updateOne",
             args |-> [repository |-> this, id |-> id, input |-> data],
             res |-> a.res, parsed |-> parse(this, data), before |-> collection]
  /\ collection' = a.coll
  /\ UNCHANGED <<tdVars, regVars, cfgVars, connVars, txVars, migVars>>

\* ----------------------------------------------------------- filter compiler
\* A filter node is {AND: [...]}, {OR: [...]}, a leaf {field: value} or
\* {field_in: [...]}, or the empty filter {}; the native query is made of $and,
\* $or, $eq and $in nodes and the query that matches everything.
EmptyFilter == [empty |-> TRUE]
And(children) == [AND |-> children]
Or(children) == [OR |-> children]
Leaf(field, value) == [field |-> field, value |-> value]

\* ObjectID(value): the identifier of a string of 24 hex characters; any other
\* string makes the driver throw.
ObjectID(value) ==
  IF value.v \in Range(Hex) THEN Return(Oid(value.v))
  ELSE Throw(Err("Argument passed in must be a string of 24 hex characters"))

\* Faulty variant of castToObjectId: the value is left as the string it is.
castToObjectIdNever(fields, node) == Return(node)

\* The node visitor that casts identifier fields: part_001 147-153.  The
\* value of a node of one of the fields is cast, an array element by element
\* (node.value.map(objectId)): the first element that is no identifier makes
\* the driver throw.
castToObjectId(fields, node) ==
  IF node.field \notin fields THEN Return(node)
  ELSE IF node.value.type = "list"
  THEN LET items == node.value.items
           cast == [i \in DOMAIN items |-> ObjectID(items[i])]
           thrown == {i \in DOMAIN cast : cast[i].kind = "throw"}
       IN IF thrown # {}
          THEN cast[CHOOSE i \in thrown : \A j \in thrown : i <= j]
          ELSE Return([node EXCEPT
                         !.value = List([i \in DOMAIN cast |-> cast[i].value])])
  ELSE IF ObjectID(node.value).kind = "throw" THEN ObjectID(node.value)
       ELSE Return([node EXCEPT !.value = ObjectID(node.value).value])

\* The compiler (section 4.4): a combinator becomes the backend's grouping of
\* its compiled children, a leaf with a bare field name an equality on the
\* field and a leaf with a list (field_in) a membership, with the value of the
\* identifier field (id) cast; the empty filter becomes the query that matches
\* everything.
RECURSIVE CompileNode(_)
RECURSIVE CompileNodes(_)
CompileNodes(nodes) ==
  IF nodes = <<>> THEN Return(<<>>)
  ELSE LET h == CompileNode(Head(nodes))
           t == CompileNodes(Tail(nodes))
       IN IF h.kind = "throw" THEN h
          ELSE IF t.kind = "throw" THEN t
          ELSE Return(<<h.value>> \o t.value)

CompileNode(node) ==
  IF node = EmptyFilter THEN Return([op |-> "all"])
  ELSE IF DOMAIN node \in {{"AND"}, {"OR"}}
  THEN LET c == CompileNodes(IF DOMAIN node = {"AND"} THEN node.AND ELSE node.OR)
       IN IF c.kind = "throw" THEN c
          ELSE Return([op |-> IF DOMAIN node = {"AND"} THEN "$and" ELSE "$or",
                       args |-> c.value])
  ELSE LET n == castToObjectId({"id"}, node)
       IN IF n.kind = "throw" THEN n
          ELSE Return([op |-> IF n.value.value.type = "list" THEN "$in" ELSE "$eq",
                       field |-> n.value.field, value |-> n.value.value])

\* The backend's evaluation of a native query on a document.
RECURSIVE Matches(_, _)
Matches(doc, q) ==
  IF q.op = "all" THEN TRUE
  ELSE IF q.op = "$and" THEN \A i \in DOMAIN q.args : Matches(doc, q.args[i])
  ELSE IF q.op = "$or" THEN \E i \in DOMAIN q.args : Matches(doc, q.args[i])
  ELSE IF q.op = "$in"
  THEN \E i \in DOMAIN q.value.items : doc[q.field] = q.value.items[i]
  ELSE doc[q.field] = q.value

\* The pagination block (section 4.4): first and last become the limit, last
\* with the sort direction flipped and the fetched list reversed; skip together
\* with first or last is rejected.
CompilePagination(p) ==
  IF "skip" \in DOMAIN p /\ DOMAIN p \cap {"first", "last"} # {}
  THEN Throw(Err("InvalidPaginationError"))
  ELSE Return([sort |-> IF "last" \in DOMAIN p THEN "desc" ELSE "asc",
               skip |-> IF "skip" \in DOMAIN p THEN p.skip ELSE 0,
               limit |-> IF "first" \in DOMAIN p THEN p.first
                         ELSE IF "last" \in DOMAIN p THEN p.last ELSE 0,
               reverse |-> "last" \in DOMAIN p])

\* The documents of D as the backend sorts them by rank.
RECURSIVE SortByRank(_, _)
SortByRank(D, direction) ==
  IF D = {} THEN <<>>
  ELSE LET d == CHOOSE x \in D :
                  \A y \in D : IF direction = "asc" THEN x.rank <= y.rank
                               ELSE x.rank >= y.rank
       IN <<d>> \o SortByRank(D \ {d}, direction)

Reverse(s) == [i \in DOMAIN s |-> s[Len(s) + 1 - i]]

\* The backend's skip and limit on a sorted list; limit 0 is no limit.
SkipLimit(s, skip, limit) ==
  LET rest == SubSeq(s, skip + 1, Len(s))
  IN IF limit = 0 \/ limit >= Len(rest) THEN rest ELSE SubSeq(rest, 1, limit)

\* Faulty variant of findMany: the list fetched for last is returned as it was
\* fetched.
findManyNoReverse(C, where, pagination) ==
  LET q == CompileNode(where)
      p == CompilePagination(pagination)
  IN IF q.kind = "throw" THEN q
     ELSE IF p.kind = "throw" THEN p
     ELSE Return(SkipLimit(SortByRank({d \in C : Matches(d, q.value)}, p.value.sort),
                           p.value.skip, p.value.limit))

\* findMany (sections 4.3, 4.4): the filter and the pagination block are
\* compiled, the backend runs the query, and the list fetched for last is
\* reversed.
findMany(C, where, pagination) ==
  LET q == CompileNode(where)
      p == CompilePagination(pagination)
  IN IF q.kind = "throw" THEN q
     ELSE IF p.kind = "throw" THEN p
     ELSE LET fetched == SkipLimit(SortByRank({d \in C : Matches(d, q.value)},
                                              p.value.sort),
                                   p.value.skip, p.value.limit)
          IN Return(IF p.value.reverse THEN Reverse(fetched) ELSE fetched)

\* findMany(where, pagination) has been called on the repository and has not
\* completed.
FindManyCalled(where, pagination) ==
  [name |-> "findMany", args |-> [where |-> where, pagination |-> pagination],
   res |-> None]

\* The findMany that was called completes.
findManyCall ==
  /\ phase = "ready"
  /\ rop.name = "findMany"
  /\ rop.res = None
  /\ rop' = [rop EXCEPT !.res = findMany(collection, rop.args.where,
                                         rop.args.pagination)]
  /\ UNCHANGED collection
  /\ UNCHANGED <<tdVars, regVars, cfgVars, connVars, txVars, migVars>>

\* ---------------------------------------------------------- specifications
NoConnections == [k \in Keys |-> Undef]
OpenConnections(names) ==
  [k \in Keys |-> IF k \in names THEN Client(UrlOf(k)) ELSE Undef]

\* Every way the units' files are spread over the modules' directories; a
\* directory's glob yields its files in name order.
\* What the modules' repositories directories hold and whether they are
\* autoloaded: one module with both classes, or a class in each.
ModuleRepositorySets ==
  {[m \in Modules |-> IF m = "m1"
                      THEN [autoload |-> TRUE, files |-> <<"u1", "p1">>]
                      ELSE [autoload |-> FALSE, files |-> <<"p1">>]],
   [m \in Modules |-> IF m = "m1"
                      THEN [autoload |-> TRUE, files |-> <<"u1">>]
                      ELSE [autoload |-> TRUE, files |-> <<"p1">>]]}

NoModuleRepositories == [m \in Modules |-> [autoload |-> TRUE, files |-> <<>>]]

ModuleFileSets ==
  {[m \in Modules |-> SortedSeq({u \in Units : owner[u] = m})] :
     owner \in [Units -> Modules]}

TdIdle ==
  /\ closedClients = {}
  /\ closing = {}
  /\ tdpc = "idle"
  /\ tdRes = None
  /\ teardowns = 0
  /\ tdAtCall = [keys |-> {}, open |-> {}]
  /\ tdFirst = [keys |-> {}, closed |-> {}]
  /\ ccRes = [calls |-> 0, res |-> None]

\* No call has been made on the repository table or the relation registry.
NoCalls ==
  /\ op = NoOp
  /\ relBefore = {}
  /\ adds = 0
  /\ decls = 0
  /\ configures = 0
  /\ relAfterFirst = [reg |-> {}, declared |-> <<>>, res |-> None]

RegIdle ==
  /\ repositories = <<>>
  /\ bound = {}
  /\ declared = <<>>
  /\ relations = {}
  /\ NoCalls

\* No repository operation has been made, on an empty collection.
RepoIdle ==
  /\ collection = {}
  /\ rop = NoOp

TxIdle ==
  /\ store = {}
  /\ txState = "none"
  /\ txpc = "idle"
  /\ txCaller = "none"
  /\ fnOwner = 0
  /\ fnW = 0
  /\ fnOut = None
  /\ fnCalls = 0
  /\ fnThrows = 0
  /\ txRes = None
  /\ storeAtCall = {}
  /\ calls = 0

MigIdle ==
  /\ files = <<>>
  /\ migrations = {}
  /\ runpc = "idle"
  /\ pending = <<>>
  /\ cur = 0
  /\ runRes = None
  /\ runs = 0
  /\ log = <<>>
  /\ failedUnit = 0
  /\ upStarted = <<>>
  /\ upFailed = FALSE
  /\ upFailedAt = 0
  /\ migAtStart = {}
  /\ pendingAtStart = <<>>
  /\ history = <<>>

\* The module after its connections were opened (setup, index.js 150-154):
\* the migrator exists with no files and its repository is registered, the
\* hook calls of loadFromModules are issued.
Init ==
  /\ txEnabled \in BOOLEAN
  /\ silent \in BOOLEAN
  /\ cfgConns = <<"main", "aux">>
  /\ cfgDefault = Undef
  /\ moduleFiles \in ModuleFileSets
  /\ autoload \in {[m \in Modules |-> TRUE], [m \in Modules |-> m = "m1"]}
  /\ migrationEnabled = TRUE
  /\ moduleRepositories = CHOOSE c \in ModuleRepositorySets : c["m2"].autoload = FALSE
  /\ phase = "loading"
  /\ defaultConnectionName = "main"
  /\ connections = OpenConnections(Names)
  /\ connecting = {}
  /\ gcArg = Undef
  /\ gcRes = None
  /\ gcAt = [connections |-> NoConnections, default |-> Undef]
  /\ initRes = Return(Undef)
  /\ TdIdle
  /\ repositories = <<Entry("Migration", "mig")>>
  /\ bound = {"mig"}
  /\ declared = <<>>
  /\ relations = {}
  /\ NoCalls
  /\ RepoIdle
  /\ TxIdle
  /\ MigIdle
  /\ toLoad = HookCalls

Next ==
  \/ \E m \in Modules : loadMigrationsFromModule(m)
  \/ \E m \in Modules : loadRepositoriesFromModule(m)
  \/ loadFromModules
  \/ MigratorRun
  \/ MigratorApply
  \/ TxStep
  \/ MigratorRecord
  \/ MigratorFail
  \/ MigratorFinish

Spec == Init /\ [][Next]_vars

\* The module after setup, called by application code.
InitTx ==
  /\ txEnabled \in BOOLEAN
  /\ silent = FALSE
  /\ cfgConns = <<"main", "aux">>
  /\ cfgDefault = Undef
  /\ moduleFiles = [m \in Modules |-> <<>>]
  /\ autoload = [m \in Modules |-> TRUE]
  /\ migrationEnabled = FALSE
  /\ moduleRepositories = NoModuleRepositories
  /\ phase = "ready"
  /\ defaultConnectionName = "main"
  /\ connections = OpenConnections(Names)
  /\ connecting = {}
  /\ gcArg = Undef
  /\ gcRes = None
  /\ gcAt = [connections |-> NoConnections, default |-> Undef]
  /\ initRes = Return(Undef)
  /\ TdIdle
  /\ RegIdle
  /\ RepoIdle
  /\ TxIdle
  /\ MigIdle
  /\ toLoad = {}

NextTx ==
  \/ \E cn \in {Undef, "aux", "other"} : appCall(cn)
  \/ TxStep
  \/ appDone

SpecTx == InitTx /\ [][NextTx]_vars

\* The module as constructed, for every configuration of its connections.
InitConn ==
  /\ txEnabled = FALSE
  /\ silent = FALSE
  /\ cfgConns \in {<<"main">>, <<"main", "aux">>, <<"aux", "main">>}
  /\ cfgDefault \in {Undef, "", "main", "aux", "other"}
  /\ moduleFiles = [m \in Modules |-> <<>>]
  /\ autoload = [m \in Modules |-> TRUE]
  /\ migrationEnabled = TRUE
  /\ moduleRepositories = NoModuleRepositories
  /\ phase = "constructed"
  /\ defaultConnectionName = Undef
  /\ connections = NoConnections
  /\ connecting = {}
  /\ gcArg = Undef
  /\ gcRes = None
  /\ gcAt = [connections |-> NoConnections, default |-> Undef]
  /\ initRes = None
  /\ TdIdle
  /\ RegIdle
  /\ RepoIdle
  /\ TxIdle
  /\ MigIdle
  /\ toLoad = {}

NextConn ==
  \/ initialize
  \/ setup
  \/ \E n \in Names : createConnection(n)
  \/ \E n \in Names : createConnectionRejected(n)
  \/ setupConnected
  \/ \E name \in Keys \cup {""} \cup Inherited : closeConnectionCall(name)
  \/ teardown
  \/ \E c \in closing, rejected \in BOOLEAN : clientClose(c, rejected)
  \/ teardownResolved

SpecConn == InitConn /\ [][NextConn]_vars

\* The module from construction to the end of its connect calls, with callers
\* of getConnection.
NextGet ==
  \/ initialize
  \/ setup
  \/ \E n \in Names : createConnection(n)
  \/ \E n \in Names : createConnectionRejected(n)
  \/ setupConnected
  \/ \E name \in Keys \cup {""} \cup Inherited : getConnectionCall(name)

SpecGet == InitConn /\ [][NextGet]_vars

\* The module after setup with transactional mode off: what the repository
\* table and the relation registry are used in.
ReadyModule ==
  /\ txEnabled = FALSE
  /\ silent = FALSE
  /\ cfgConns = <<"main", "aux">>
  /\ cfgDefault = Undef
  /\ moduleFiles = [m \in Modules |-> <<>>]
  /\ autoload = [m \in Modules |-> TRUE]
  /\ migrationEnabled = FALSE
  /\ moduleRepositories = NoModuleRepositories
  /\ phase = "ready"
  /\ defaultConnectionName = "main"
  /\ connections = OpenConnections(Names)
  /\ connecting = {}
  /\ gcArg = Undef
  /\ gcRes = None
  /\ gcAt = [connections |-> NoConnections, default |-> Undef]
  /\ initRes = Return(Undef)
  /\ TdIdle
  /\ TxIdle
  /\ MigIdle
  /\ toLoad = {}

\* What modules call addRelation with: a source given by name, by repository
\* or not at all, a target given by name, by repository name (registered or
\* not) or not at all; a relation from the source's ownerId to the target's
\* _id, declared without an inverse or, with a target that names one, with the
\* inverse "items" of cardinality one.
AddRelationInputs ==
  {[type |-> "many", inversedType |-> IF x[2].name = Undef THEN Undef ELSE "one",
    from |-> x[1], to |-> x[2]] :
       x \in {Node(ref[1], Undef, ref[2], "ownerId", n) :
            ref \in {<<"users", Undef>>, <<Undef, "r2">>, <<Undef, Undef>>},
            n \in RelNames}
            \X {Node(ref[1], ref[2], Undef, "_id", ref[3]) :
                 ref \in {<<"users", Undef, Undef>>, <<"users", Undef, "items">>,
                          <<Undef, "b.Posts", "items">>, <<Undef, "zz", Undef>>,
                          <<Undef, Undef, Undef>>}}}

\* The options a lookup is asked for with.
LookupOptions ==
  {[k \in {} |-> Undef],
   [from |-> "archive", pipeline |-> "extra"],
   [localField |-> "x", foreignField |-> "y", as |-> Undef]}

\* The module with two repositories registered and bound, its relation
\* registry empty, and a repository that is not bound and has declared a
\* relation.
InitRel ==
  /\ ReadyModule
  /\ repositories = <<Entry("a.Users", "r1"), Entry("b.Posts", "r2")>>
  /\ bound = {"r1", "r2"}
  /\ declared = SetDeclared(<<>>, "r0", "items",
                            repositoryAddRelation("r0",
                              [repositoryName |-> Undef, repository |-> "r2",
                               collectionName |-> Undef, type |-> "many",
                               localField |-> "_id", foreignField |-> "ownerId"]).value)
  /\ relations = {}
  /\ NoCalls
  /\ RepoIdle

NextRel ==
  \/ \E args \in AddRelationInputs : addRelationCall(args)
  \/ \E c \in Colls \cup {"constructor"}, n \in RelNames \cup Inherited :
       relationToLookupCall(c, n)
  \/ \E r \in Repos, n \in RelNames \cup {"toString"}, o \in LookupOptions :
       boundRelationToLookupCall(r, n, o)
  \/ \E r \in Repos, n \in RelNames \cup {"toString"} : getRelationCall(r, n)
  \/ \E r \in Repos, n \in RelNames \cup {"toString"} : hasRelationCall(r, n)
  \/ \E n \in RelNames \cup {"toString"}, o \in LookupOptions :
       repositoryRelationToLookupCall("r0", n, o)

SpecRel == InitRel /\ [][NextRel]_vars

\* The module with an empty repository table.
InitRepo ==
  /\ ReadyModule
  /\ RegIdle
  /\ RepoIdle

NextRepo ==
  \/ \E k \in RepoKeys, r \in Repos \cup Arrays, cn \in {Undef, "other"} :
       addRepositoryCall(k, r, cn)
  \/ \E entries \in {<<>>,
                      <<Entry("a.Users", "r1"), Entry("b.Posts", "r2")>>,
                      <<Entry("a.Users", "r1"), Entry("c.Users", "r0")>>,
                      <<Entry("b.Posts", "[]"), Entry("a.Users", "[r1]")>>} :
       addRepositoriesCall(entries)
  \/ \E r \in Repos, cn \in {Undef, "other"} : createRepositoryCall(r, cn)
  \/ \E r \in Repos \cup Arrays, cn \in {Undef, "other"} : bindRepositoryCall(r, cn)
  \/ \E k \in RepoKeys \cup {"zz", "constructor"} : getRepositoryCall(k)
  \/ \E r \in Repos, k \in {"b.Posts", "zz", "toString"} :
       repositoryGetRepositoryCall(r, k)

SpecRepo == InitRepo /\ [][NextRepo]_vars

\* What repositories declare their relations with.
DeclOptions ==
  {[repositoryName |-> Undef, repository |-> "r2", collectionName |-> Undef,
    type |-> "many", localField |-> "_id", foreignField |-> "ownerId"],
   [repositoryName |-> "b.Posts", repository |-> Undef, collectionName |-> Undef,
    type |-> "one", localField |-> "ownerId", foreignField |-> "_id"],
   [repositoryName |-> Undef, repository |-> "r1", collectionName |-> "posts",
    type |-> "one", localField |-> "_id", foreignField |-> "_id"],
   [repositoryName |-> Undef, repository |-> Undef, collectionName |-> "posts",
    type |-> "one", localField |-> "_id", foreignField |-> "_id"],
   [repositoryName |-> "zz", repository |-> "r0", collectionName |-> Undef,
    type |-> "one", localField |-> "_id", foreignField |-> "_id"]}

\* The module with three repositories registered and bound, two of them on
\* the same collection, in either order of registration.
InitBind ==
  /\ ReadyModule
  /\ repositories \in
       {<<Entry("a.Users", "r1"), Entry("b.Posts", "r2"), Entry("c.Users", "r3")>>,
        <<Entry("c.Users", "r3"), Entry("b.Posts", "r2"), Entry("a.Users", "r1")>>}
  /\ bound = {"r1", "r2", "r3"}
  /\ declared = <<>>
  /\ relations = {}
  /\ NoCalls
  /\ RepoIdle

NextBind ==
  \/ \E r \in {"r1", "r3", "r0"}, n \in RelNames, o \in DeclOptions :
       repositoryAddRelationCall(r, n, o)
  \/ configureRepositoriesCall

SpecBind == InitBind /\ [][NextBind]_vars

\* The module as constructed, with the modules' migration files on disk: setup
\* from the connect calls to the end of loading.
InitSetup ==
  /\ txEnabled = FALSE
  /\ silent = FALSE
  /\ cfgConns \in {<<"main">>, <<"main", "aux">>, <<"aux", "main">>}
  /\ cfgDefault \in {Undef, "aux"}
  /\ moduleFiles \in ModuleFileSets
  /\ autoload = [m \in Modules |-> TRUE]
  /\ migrationEnabled \in BOOLEAN
  /\ moduleRepositories \in ModuleRepositorySets
  /\ phase = "constructed"
  /\ defaultConnectionName = Undef
  /\ connections = NoConnections
  /\ connecting = {}
  /\ gcArg = Undef
  /\ gcRes = None
  /\ gcAt = [connections |-> NoConnections, default |-> Undef]
  /\ initRes = None
  /\ TdIdle
  /\ RegIdle
  /\ RepoIdle
  /\ TxIdle
  /\ MigIdle
  /\ toLoad = {}

NextSetup ==
  \/ initialize
  \/ setup
  \/ \E n \in Names : createConnection(n)
  \/ \E n \in Names : createConnectionRejected(n)
  \/ setupConnected
  \/ \E m \in Modules : loadMigrationsFromModule(m)
  \/ \E m \in Modules : loadRepositoriesFromModule(m)
  \/ loadFromModules

SpecSetup == InitSetup /\ [][NextSetup]_vars

\* What createOne and updateOne are called with: inputs the predicate of "p1"
\* accepts and inputs that violate one or both of its constraints.
WriteInputs ==
  {[name |-> n, rank |-> k] : n \in {Str("news"), Str("sport"), Str("")},
                              k \in {0, 1}}

\* The collection "posts", empty, and two repositories of it: "r2" of the class
\* itself and "p1" of a class that supplies its predicate.
InitWrite ==
  /\ ReadyModule
  /\ RegIdle
  /\ RepoIdle

NextWrite ==
  \/ \E this \in {"r2", "p1"}, data \in WriteInputs : createOneCall(this, data)
  \/ \E this \in {"r2", "p1"}, i \in 1..(MaxDocs + 1), data \in WriteInputs :
       updateOneCall(this, Oid(Hex[i]), data)

SpecWrite == InitWrite /\ [][NextWrite]_vars

\* The fixture documents: ranks 1, 2, ..., names alternating.
Doc(i) == [id |-> Oid(Hex[i]), name |-> Str(IF i % 2 = 1 THEN "news" ELSE "sport"),
           rank |-> i]

NoPagination == [orderBy |-> "rank_ASC"]

\* The pagination blocks findMany is called with.
Paginations ==
  {NoPagination}
    \cup {[orderBy |-> "rank_ASC", last |-> n] : n \in 1..MaxLast}
    \cup {[orderBy |-> "rank_ASC", first |-> n] : n \in 1..MaxLast}
    \cup {[orderBy |-> "rank_ASC", skip |-> 1],
          [orderBy |-> "rank_ASC", skip |-> 1, last |-> 2]}

\* A set of documents with ranks among 1..NDocs, queried with a pagination
\* block and the empty filter, an equality leaf or a list of identifiers.
InitPage ==
  /\ ReadyModule
  /\ RegIdle
  /\ collection \in SUBSET {Doc(i) : i \in 1..NDocs}
  /\ rop \in {FindManyCalled(where, p) :
                where \in {EmptyFilter, Leaf("name", Str("news")),
                           Leaf("id", List(<<Str(Hex[1]), Str(Hex[2])>>)),
                           Leaf("id", List(<<Str(Hex[1]), Str("zz")>>)),
                           Leaf("id", List(<<>>))},
                p \in Paginations}

NextPage == findManyCall

SpecPage == InitPage /\ [][NextPage]_vars

\* The leaves of the filter trees: the empty filter and equalities on the
\* identifier (of a fixture document, or no identifier at all) and the name.
Leaves ==
  {EmptyFilter, Leaf("id", Str(Hex[1])), Leaf("id", Str(Hex[2])),
   Leaf("id", Str("zz")), Leaf("name", Str("news")), Leaf("name", Str("sport"))}

\* The filter trees of n nodes, and the lists of trees of m nodes in all.
RECURSIVE TreesOfSize(_)
RECURSIVE ForestsOfSize(_)
ForestsOfSize(m) ==
  IF m = 0 THEN {<<>>}
  ELSE UNION {{<<t>> \o f : t \in TreesOfSize(k), f \in ForestsOfSize(m - k)} :
                k \in 1..m}

TreesOfSize(n) ==
  IF n = 1 THEN Leaves
  ELSE {And(f) : f \in ForestsOfSize(n - 1)} \cup {Or(f) : f \in ForestsOfSize(n - 1)}

\* A fixture document set, queried with a filter tree.
InitFilter ==
  /\ ReadyModule
  /\ RegIdle
  /\ collection \in SUBSET {Doc(i) : i \in 1..NFixture}
  /\ rop \in {FindManyCalled(where, NoPagination) :
                where \in UNION {TreesOfSize(n) : n \in 1..MaxNodes}}

NextFilter == findManyCall

SpecFilter == InitFilter /\ [][NextFilter]_vars

\* ------------------------------------------------------------------ claims
Record(u, run) == [identifier |-> u, appliedAt |-> run, success |-> TRUE]
Written(u) == \A k \in 1..MaxWrites : <<u, k>> \in store
StrictlyAscending(q) == \A i, j \in DOMAIN q : i < j => q[i] < q[j]
LastRun == history[Len(history)]

\* C1: with an empty migrations collection at the start and no failing up
\* operation, the first run() executes and records every unit the modules
\* contribute, each once; a second run() after it executes no unit and leaves
\* the migrations collection as it was.
C1_IdempotentRerun ==
  (Len(history) >= 1 /\ ~history[1].upFailed) =>
    /\ history[1].res = "return"
    /\ history[1].ups = SortedSeq(ContributedUnits)
    /\ applied = ContributedUnits
    /\ \A u \in ContributedUnits : Written(u)
    /\ Len(history) >= 2 =>
         /\ history[2].res = "return"
         /\ history[2].ups = <<>>
         /\ ~history[2].changed
         /\ migrations = {Record(u, 1) : u \in ContributedUnits}

C1_Witness ==
  /\ Len(history) = 2
  /\ ~history[1].upFailed
  /\ Len(history[1].ups) = NUnits
  /\ history[2].ups = <<>>

\* C2: when the up operation of unit K fails in a run() (the failure is the
\* outcome of the unit's transaction), every pending unit before K is recorded,
\* K is not, no up operation of a unit after K was started in that run, the run
\* ends with the error naming K, and the first unit the next run() executes is K.
C2_FailAtK ==
  /\ upFailedAt # 0 =>
       /\ \A u \in Range(pendingAtStart) : u < upFailedAt => u \in applied
       /\ upFailedAt \notin applied
       /\ \A i \in DOMAIN upStarted : upStarted[i] <= upFailedAt
       /\ runpc = "idle"
       /\ runRes.kind = "throw"
       /\ runRes.error.identifier = upFailedAt
  /\ (runpc = "applying" /\ Len(upStarted) = 1 /\ Len(history) >= 1
        /\ LastRun.res = "throw") => cur = LastRun.failed

C2_Witness ==
  /\ runs = 2
  /\ runpc = "applying"
  /\ Len(upStarted) = 1
  /\ cur = 2
  /\ history[1].res = "throw"
  /\ history[1].failed = 2
  /\ history[1].ups = <<1, 2>>
  /\ applied = {1}
  /\ Len(discover) = NUnits

\* C3: a migration record with success = true stays in the collection as it is
\* in every step: no step removes it or puts another record with its identifier
\* beside it.
C3_RecordsKept ==
  [][\A r \in migrations :
       r.success => /\ r \in migrations'
                    /\ \A q \in migrations' : q.identifier = r.identifier => q = r]_vars

C3_Witness ==
  /\ runs = 2
  /\ runpc = "idle"
  /\ runRes.kind = "throw"
  /\ \E r \in migrations : r.appliedAt = 1
  /\ \E r \in migrations : r.appliedAt = 2

\* C4: in a run() the up operations start in strictly ascending identifier
\* order whatever the order of migrator.files; while the up operation of a unit
\* runs, every pending unit with a smaller identifier has finished and is
\* recorded, and no other unit's up operation is running.
C4_SequentialInOrder ==
  /\ StrictlyAscending(upStarted)
  /\ runpc = "applying" =>
       /\ \A u \in Range(pendingAtStart) : u < cur => u \in applied /\ Written(u)
       /\ \A u \in Range(pendingAtStart) : u > cur => u \notin Range(upStarted)
  /\ (txpc # "idle" /\ txCaller = "migrator") => (runpc = "applying" /\ fnOwner = cur)

C4_Witness ==
  /\ Len(files) = NUnits
  /\ files[1] > files[2]
  /\ runpc = "applying"
  /\ Len(upStarted) = NUnits

\* The state of a unit (specification 4.6): applied once its record is written,
\* applying while its up operation runs, failed after the run failed on it,
\* pending otherwise.
UnitState(u) ==
  IF u \in applied THEN "applied"
  ELSE IF runpc = "applying" /\ cur = u THEN "applying"
  ELSE IF failedUnit = u THEN "failed"
  ELSE "pending"

Legal(a, b) ==
  \/ a = b
  \/ a = "pending" /\ b = "applying"
  \/ a = "applying" /\ b \in {"applied", "failed"}

Blocked ==
  \A u, v \in Units :
    (u < v /\ UnitState(u) = "failed" /\ UnitState(v) = "pending")
      => UnitState(v)' = "pending"

\* C5 as stated: a unit's state changes only along pending -> applying ->
\* applied or pending -> applying -> failed, failed is terminal, and while a
\* unit is failed no later unit leaves pending.
C5_FailedTerminal ==
  [][(\A u \in Units : Legal(UnitState(u), UnitState(u)')) /\ Blocked]_vars

\* C5 amended: a unit's state changes only along pending -> applying -> applied
\* or pending -> applying -> failed; a failed unit stays failed until a later
\* run() starts, which makes it pending again; while a unit is failed no later
\* unit leaves pending.
C5_FailedUntilNextRun ==
  [][(\A u \in Units :
        \/ Legal(UnitState(u), UnitState(u)')
        \/ /\ UnitState(u) = "failed"
           /\ UnitState(u)' = "pending"
           /\ runs' = runs + 1) /\ Blocked]_vars

C5_Witness ==
  /\ UnitState(1) = "applied"
  /\ UnitState(2) = "failed"
  /\ UnitState(3) = "pending"

\* C9: when the up operation of a unit fails, run() ends with
\* MigrationFailedError naming that unit, and the migrations collection is the
\* one of the run's start plus the records of the pending units before it: the
\* outcome is this function of the units and the failing unit whether the runner
\* is silent or not; a silent runner has reported nothing.
C9_SilentSameOutcome ==
  /\ (runpc = "idle" /\ upFailedAt # 0) =>
       /\ runRes = Throw([name |-> "MigrationFailedError", identifier |-> upFailedAt])
       /\ migrations = migAtStart \cup
            {Record(u, runs) : u \in {x \in Range(pendingAtStart) : x < upFailedAt}}
       /\ log = IF silent THEN <<>>
                ELSE Filter(pendingAtStart, {x \in Units : x < upFailedAt})
  /\ (txCaller = "migrator" /\ txpc = "done" /\ fnOut.kind = "throw")
       => txRes.kind = "throw"

C9_Witness ==
  /\ silent
  /\ runpc = "idle"
  /\ upFailedAt = 2
  /\ 1 \in applied
  /\ runRes.kind = "throw"
  /\ log = <<>>

\* C6: with transactional mode on, fn runs only inside an open transaction of
\* the call's session; a failure of fn is followed by the abort of that
\* transaction; transaction() returns only after the commit of a transaction
\* in which fn succeeded and throws fn's own error only after the abort; once
\* it has returned or thrown, no transaction is open.
C6_TransactionProtocol ==
  txEnabled =>
    /\ txpc \in {"fn", "fnEnd"} => txState = "open"
    /\ txpc = "aborted" => (txState = "aborted" /\ fnOut.kind = "throw")
    /\ (txpc = "done" /\ fnCalls > 0) =>
         /\ txState \in {"committed", "aborted"}
         /\ fnOut.kind = "return" => (txState = "committed" /\ txRes.kind = "return")
         /\ fnOut.kind = "throw" => (txState = "aborted" /\ txRes = fnOut)

C6_Witness ==
  /\ txEnabled
  /\ txpc = "done"
  /\ fnW > 0
  /\ txState = "aborted"
  /\ txRes = Throw(PlainError)

\* C7: with transactional mode on, when transaction(fn) throws, none of the
\* writes fn made through the handle it was given is in the store: the store is
\* as it was when transaction(fn) was called.
C7_AllOrNothing ==
  (txEnabled /\ txpc = "done" /\ txRes.kind = "throw") => store = storeAtCall

\* C8: in either transactional mode, one call of transaction(fn) invokes fn at
\* most once (so the up operation of a unit is executed at most once in a run).
C8_NoRetry == fnCalls <= 1

\* C10: getConnection(name) returns the connection registered under name and
\* fails with the unknown-connection error when there is none; getConnection()
\* returns the default connection; it never returns an absent connection.
C10_GetConnection ==
  gcRes.kind # "none" =>
    LET at == gcAt.connections
        n == IF gcArg = Undef THEN gcAt.default ELSE gcArg
    IN IF n \in DOMAIN at /\ at[n] # Undef
       THEN gcRes = Return(at[n])
       ELSE gcRes = Throw(Err("Unknown connection name"))

\* C11: teardown closes every connection that is open when it is called; it
\* calls close() on no client that is closed already; a second teardown after
\* the first has completed, with no connection opened since and every close()
\* resolved, resolves too and leaves the clients as the first call left them.
C11_CloseAllIdempotent ==
  /\ tdAtCall.keys \subseteq tdAtCall.open
  /\ (teardowns >= 1 /\ tdpc = "idle" /\ tdRes.kind = "return") =>
       tdAtCall.open \subseteq closedClients
  /\ (teardowns >= 2 /\ tdpc = "idle" /\ tdRes.kind = "return"
        /\ ConnectionKeys = tdFirst.keys /\ tdFirst.closed = tdFirst.keys) =>
       closedClients = tdFirst.closed

\* A default-connection name is configured when the configuration gives one
\* that `||` does not pass over.
ConfiguredDefault == cfgDefault \notin Falsy

\* C12: initialize throws when a default-connection name is configured that is
\* not the name of a configured connection; otherwise it returns and the
\* default connection name is the configured one, or the first listed name
\* when none is configured, and it is the name of exactly one listed
\* connection.
C12_DefaultConnection ==
  initRes.kind # "none" =>
    IF ConfiguredDefault /\ cfgDefault \notin ConfigNames
    THEN /\ initRes.kind = "throw"
         /\ phase = "failed"
         /\ connections = NoConnections
    ELSE /\ initRes.kind = "return"
         /\ defaultConnectionName \in ConfigNames
         /\ defaultConnectionName =
              (IF ConfiguredDefault THEN cfgDefault ELSE cfgConns[1])
         /\ Cardinality({i \in DOMAIN cfgConns : cfgConns[i] = defaultConnectionName}) = 1

C12_Witness ==
  /\ cfgDefault = "other"
  /\ initRes.kind = "throw"
  /\ phase = "failed"

\* The collection name a relation node of the last addRelation call stands for.
CollectionOf(node) == extractCollectionName(node).value

\* The last call was addRelation and both of its collection names were
\* extracted.
Added ==
  /\ op.name = "addRelation"
  /\ extractCollectionName(op.args.from).kind = "return"
  /\ extractCollectionName(op.args.to).kind = "return"

\* (c, n) was registered when the last call was made: the registry had an
\* entry of its own for it.
RegisteredBefore(c, n) == \E e \in relBefore : e.source = c /\ e.name = n

\* (c, n) is registered.
Registered(c, n) == \E e \in relations : e.source = c /\ e.name = n

\* Repository r declares a relation n: r.relations has an entry of its own
\* for it.
Declares(r, n) == \E i \in DOMAIN declared : declared[i].owner = r /\ declared[i].name = n

\* A repository is registered under key: the table has an entry of its own
\* for it.
RegisteredUnder(key) == \E i \in DOMAIN repositories : repositories[i].key = key

\* Every descriptor of the registry is stored under a defined source collection
\* name and has a defined target collection name.
Resolved(R) == \A e \in R : Truthy(e.source) /\ Truthy(e.collectionName)

AllResolved == Resolved(relations) /\ Resolved(relBefore)

\* C13 (for relations whose collection names are all defined): addRelation throws
\* when the relation's name is registered for its source collection already,
\* and leaves the descriptor registered under it as it was; so it does when the
\* name of the inverse it is to register is registered for the target
\* collection already.
C13_DuplicateRejected ==
  (Added /\ AllResolved) =>
    LET a == CollectionOf(op.args.from)
        b == CollectionOf(op.args.to)
        n == op.args.from.name
        m == op.args.to.name
    IN /\ RegisteredBefore(a, n) =>
            (op.res.kind = "throw" /\ Rel(relations, a, n) = Rel(relBefore, a, n))
       /\ (Truthy(op.args.inversedType) /\ Truthy(m) /\ RegisteredBefore(b, m)) =>
            (op.res.kind = "throw" /\ Rel(relations, b, m) = Rel(relBefore, b, m))

\* The repositories of the repository table.
RegisteredRepositories == {repositories[i].repository : i \in DOMAIN repositories}

\* C14: a configureRepositories() call after the first, with the repositories
\* declaring what they declared at the first and the relation registry as the
\* first call left it, ends as the first did and leaves the registry as it
\* was, each relation present once;
\* when the first call returned, every declared relation is registered under
\* its repository's collection, with the descriptor of a declaration of that
\* name for that collection.
C14_RebindIdempotent ==
  (op.name = "configureRepositories" /\ configures >= 2
     /\ declared = relAfterFirst.declared /\ relBefore = relAfterFirst.reg) =>
    /\ op.res = relAfterFirst.res
    /\ relations = relAfterFirst.reg
    /\ \A e, f \in relations : (e.source = f.source /\ e.name = f.name) => e = f
    /\ \A r \in RegisteredRepositories, n \in RelNames :
         (op.res.kind = "return" /\ Declares(r, n)) =>
           \E q \in RegisteredRepositories :
             /\ CollOf(q) = CollOf(r)
             /\ Declares(q, n)
             /\ Rel(relations, CollOf(r), n) =
                  [collectionName |-> Decl(declared, q, n).collectionName,
                   localField |-> Decl(declared, q, n).localField,
                   foreignField |-> Decl(declared, q, n).foreignField,
                   type |-> Decl(declared, q, n).type]

C14_Witness ==
  /\ op.name = "configureRepositories"
  /\ op.res.kind = "return"
  /\ configures = 2
  /\ relBefore = relAfterFirst.reg
  /\ declared = relAfterFirst.declared
  /\ Declares("r1", "owner")
  /\ Declares("r3", "owner")
  /\ Decl(declared, "r1", "owner") # Decl(declared, "r3", "owner")
  /\ Registered("users", "owner")

\* The collection and the name the last lookup was asked for.
LookupCollection ==
  IF op.name = "relationToLookup" THEN op.args.collectionName
  ELSE CollOf(op.args.repository)

\* C15 (in a registry whose collection names are all defined): a lookup
\* (relationToLookup of the module or of a repository, getRelation of a
\* repository) of a name that is not registered for the collection throws,
\* whether the collection has other relations or none.
C15_UnknownRelationFails ==
  /\ (op.name \in {"relationToLookup", "repository.relationToLookup",
                   "repository.getRelation"}
        /\ AllResolved
        /\ ~Registered(LookupCollection, op.args.name)) => op.res.kind = "throw"
  /\ (op.name = "Repository.relationToLookup"
        /\ ~Declares(op.args.repository, op.args.name)) =>
       op.res.kind = "throw"

\* What a lookup of a registered relation yields when no option is given.
LookupDefaults(d, name) ==
  [from |-> d.collectionName, localField |-> d.localField,
   foreignField |-> d.foreignField, as |-> name]

\* spec has the keys of the defaults and of the options, with the option's
\* value for every key the options have and the default's for every other.
OverridesWin(spec, defaults, options) ==
  /\ DOMAIN spec = DOMAIN defaults \cup DOMAIN options
  /\ \A k \in DOMAIN spec :
       spec[k] = IF k \in DOMAIN options THEN options[k] ELSE defaults[k]

\* C16: relationToLookup(name, options) of a repository, for a registered
\* relation (bound repository) or a declared one (repository not bound),
\* returns the join specification with the option's value for every key the
\* options have, and from, localField, foreignField of the relation and
\* as = name for every key they have not.
C16_OverridesWin ==
  /\ (op.name = "repository.relationToLookup"
        /\ Registered(LookupCollection, op.args.name)) =>
       /\ op.res.kind = "return"
       /\ OverridesWin(op.res.value,
                       LookupDefaults(Rel(relations, LookupCollection, op.args.name),
                                      op.args.name),
                       op.args.options)
  /\ (op.name = "Repository.relationToLookup"
        /\ Declares(op.args.repository, op.args.name)) =>
       /\ op.res.kind = "return"
       /\ OverridesWin(op.res.value,
                       LookupDefaults(Decl(declared, op.args.repository, op.args.name),
                                      op.args.name),
                       op.args.options)

C16_Witness ==
  /\ op.name = "repository.relationToLookup"
  /\ Registered(LookupCollection, op.args.name)
  /\ op.args.options = [from |-> "archive", pipeline |-> "extra"]
  /\ op.res.kind = "return"
  /\ op.res.value.from = "archive"
  /\ op.res.value.as = op.args.name

\* C17 (for relations whose collection names are all defined): after
\* addRelation has returned for a relation declared with an inverse
\* (inversedType and the target's name), the relation is registered for the
\* source collection and the inverse for the target collection, each has the
\* other's collection as its target, the local field of each is the foreign
\* field of the other, and the inverse has the inverse cardinality.
C17_InverseSwapped ==
  (Added /\ AllResolved /\ op.res.kind = "return"
     /\ Truthy(op.args.inversedType) /\ Truthy(op.args.to.name)) =>
    LET a == CollectionOf(op.args.from)
        b == CollectionOf(op.args.to)
        n == op.args.from.name
        m == op.args.to.name
    IN /\ Registered(a, n)
       /\ Registered(b, m)
       /\ Rel(relations, a, n).collectionName = b
       /\ Rel(relations, b, m).collectionName = a
       /\ Rel(relations, a, n).localField = Rel(relations, b, m).foreignField
       /\ Rel(relations, a, n).foreignField = Rel(relations, b, m).localField
       /\ Rel(relations, b, m).type = op.args.inversedType

\* C18: every descriptor of the registry is stored under a defined source
\* collection name and has a defined target collection name.
C18_CollectionsResolved == Resolved(relations)

\* C19: getRepository(key) returns the repository registered under key and
\* throws when there is none; every registered repository is bound, and
\* getRepository called on a repository that is not bound throws.
C19_GetRepository ==
  /\ op.name = "getRepository" =>
       IF RegisteredUnder(op.args.key)
       THEN op.res = Return(RepositoryAt(op.args.key))
       ELSE op.res = Throw(Err("Unable to find repository"))
  /\ RegisteredRepositories \subseteq bound
  /\ (op.name = "repository.getRepository" /\ op.args.repository \notin bound) =>
       op.res.kind = "throw"
  /\ (op.name = "repository.getRepository" /\ op.args.repository \in bound) =>
       op.res = getRepository(op.args.key)

\* C20: no two repositories of the repository table have the same collection
\* name.
C20_CollectionOwnedOnce ==
  \A r, q \in RegisteredRepositories : r # q => CollOf(r) # CollOf(q)

\* The last operation was a write.
Wrote == rop.name \in {"createOne", "updateOne"}

\* The predicate of the repository the last write was called on rejects the
\* input of the call.
Rejected ==
  IF rop.args.repository = "p1" THEN Violations(rop.args.input) # {}
  ELSE ~validate(rop.args.input)

\* C21: createOne and updateOne pass their input through the repository's
\* predicate.  An input the predicate rejects makes the operation throw a
\* ValidationError that carries the violated constraints and leaves the
\* collection as it was; an input it accepts is handed on as it is: the
\* operation returns and the document written has the input's fields.
C21_WritesValidated ==
  Wrote =>
    /\ Rejected =>
         /\ rop.res.kind = "throw"
         /\ rop.res.error.message = "ValidationError"
         /\ rop.res.error.errors = Violations(rop.args.input)
         /\ collection = rop.before
    /\ ~Rejected =>
         /\ rop.res.kind = "return"
         /\ rop.parsed = Return(rop.args.input)
         /\ rop.res.value # Absent =>
              /\ rop.res.value \in collection
              /\ rop.res.value.name = rop.args.input.name
              /\ rop.res.value.rank = rop.args.input.rank
              /\ collection \ {rop.res.value} \subseteq rop.before

C21_Witness ==
  /\ rop.name = "updateOne"
  /\ rop.args.repository = "p1"
  /\ rop.before # {}
  /\ rop.args.input = [name |-> Str(""), rank |-> 0]
  /\ rop.res.kind = "throw"
  /\ rop.res.error.errors = {"name: required", "rank: minimum 1"}
  /\ collection = rop.before
  /\ \E d \in collection : d.id = rop.args.id

\* A findMany has completed.
Found == rop.name = "findMany" /\ rop.res # None

\* The ranks of a list of documents.
Ranks(s) == [i \in DOMAIN s |-> s[i].rank]

\* The n greatest ranks of D, ascending (all of them when D has no more).
RECURSIVE Greatest(_, _)
Greatest(D, n) ==
  IF D = {} \/ n = 0 THEN <<>>
  ELSE LET m == CHOOSE x \in D : \A y \in D : x >= y
       IN Greatest(D \ {m}, n - 1) \o <<m>>

\* C22: findMany with last: N and no filter returns the documents with the N
\* greatest ranks in ascending order, and the whole set in ascending order when
\* N is at least its size.
C22_LastAscending ==
  (Found /\ rop.args.where = EmptyFilter
     /\ DOMAIN rop.args.pagination = {"orderBy", "last"}) =>
    /\ rop.res.kind = "return"
    /\ Range(rop.res.value) \subseteq collection
    /\ Ranks(rop.res.value) =
         Greatest({d.rank : d \in collection}, rop.args.pagination.last)
    /\ rop.args.pagination.last >= Cardinality(collection) =>
         Ranks(rop.res.value) = SortedSeq({d.rank : d \in collection})

C22_Witness ==
  /\ rop.name = "findMany"
  /\ rop.args.where = EmptyFilter
  /\ rop.args.pagination = [orderBy |-> "rank_ASC", last |-> 2]
  /\ {d.rank : d \in collection} = 1..5
  /\ rop.res.kind = "return"
  /\ Ranks(rop.res.value) = <<4, 5>>

\* What a reader of the document sees: the identifier as its string.
View(doc) == [id |-> Str(doc.id.v), name |-> doc.name]

\* The boolean predicate of a filter tree, evaluated on a document.
RECURSIVE Satisfies(_, _)
Satisfies(doc, node) ==
  IF node = EmptyFilter THEN TRUE
  ELSE IF DOMAIN node = {"AND"} THEN \A i \in DOMAIN node.AND : Satisfies(doc, node.AND[i])
  ELSE IF DOMAIN node = {"OR"} THEN \E i \in DOMAIN node.OR : Satisfies(doc, node.OR[i])
  ELSE View(doc)[node.field] = node.value

\* The tree has an identifier leaf whose value is no identifier.
RECURSIVE HasInvalidId(_)
HasInvalidId(node) ==
  IF node = EmptyFilter THEN FALSE
  ELSE IF DOMAIN node = {"AND"} THEN \E i \in DOMAIN node.AND : HasInvalidId(node.AND[i])
  ELSE IF DOMAIN node = {"OR"} THEN \E i \in DOMAIN node.OR : HasInvalidId(node.OR[i])
  ELSE node.field = "id" /\ node.value.v \notin Range(Hex)

\* C23: for a filter tree of AND, OR and equality leaves whose identifier
\* values are identifiers, findMany returns exactly the documents of the
\* collection that satisfy the tree's predicate, each once; the empty filter
\* returns every document.
C23_FilterEquivalence ==
  (Found /\ rop.args.pagination = NoPagination /\ ~HasInvalidId(rop.args.where)) =>
    /\ rop.res.kind = "return"
    /\ Range(rop.res.value) = {d \in collection : Satisfies(d, rop.args.where)}
    /\ Len(rop.res.value) = Cardinality(Range(rop.res.value))
    /\ rop.args.where = EmptyFilter => Range(rop.res.value) = collection

C23_Witness ==
  /\ rop.name = "findMany"
  /\ rop.args.where =
       Or(<<And(<<Leaf("name", Str("sport"))>>), Leaf("id", Str(Hex[1]))>>)
  /\ collection = {Doc(1), Doc(2), Doc(3)}
  /\ rop.res.kind = "return"
  /\ Range(rop.res.value) = {Doc(1), Doc(2)}

\* A connect call of setup was rejected.
ConnectFailed ==
  /\ initRes.kind = "return"
  /\ phase # "initialized"
  /\ \E n \in ConfigNames : n \notin connecting /\ connections[n] = Undef

\* C24: setup issues every connect call before any completes.  Whatever the
\* order they complete in, a name whose call has resolved maps to the client
\* opened from its own url, and past the connection phase every configured name
\* does; once a connect call was rejected setup has failed, no hook call was
\* issued and no module's files or repositories have been loaded.
C24_ConcurrentConnect ==
  /\ phase \in {"connecting", "loading", "ready", "failed"} =>
       \A n \in ConfigNames :
         connections[n] = Undef \/ connections[n] = Client(UrlOf(n))
  /\ phase \in {"loading", "ready"} =>
       /\ connecting = {}
       /\ \A n \in ConfigNames : connections[n] = Client(UrlOf(n))
  /\ ConnectFailed =>
       /\ phase = "failed"
       /\ toLoad = {}
       /\ files = <<>>
       /\ repositories = <<>>

C24_Witness ==
  /\ phase = "ready"
  /\ cfgConns = <<"aux", "main">>
  /\ connections["main"] = Client(UrlOf("main"))
  /\ connections["aux"] = Client(UrlOf("aux"))
  /\ toLoad = {}
  /\ files # <<>>

\* C25: when fn has returned, transaction(fn) returns the value fn returned,
\* with transactional mode on as with it off.
C25_SameResult ==
  (txCaller = "app" /\ txpc = "done" /\ fnOut.kind = "return") =>
    txRes = Return(fnOut.value)

\* C26: hasRelation(name) and getRelation(name) of a bound repository return:
\* for a name that is not registered for the repository's collection
\* hasRelation returns false and getRelation no descriptor, also when no
\* relation at all is registered for the collection.
C26_NeverFail ==
  /\ op.name \in {"repository.hasRelation", "repository.getRelation"} =>
       op.res.kind = "return"
  /\ (op.name = "repository.hasRelation" /\ op.res.kind = "return") =>
       op.res.value = Registered(LookupCollection, op.args.name)
  /\ (op.name = "repository.getRelation" /\ op.res.kind = "return") =>
       op.res.value = IF Registered(LookupCollection, op.args.name)
                      THEN Rel(relations, LookupCollection, op.args.name)
                      ELSE Absent

====
